---- MODULE Spec2Model ----
(***************************************************************************)
(* State-machine model of the memory and retrieval subsystem               *)
(* (src/memory_manager.py) and of the response generator that drives it    *)
(* (src/ai_agent.py).                                                      *)
(*                                                                         *)
(* Texts are TLA+ strings.  The module text is ASCII only, so the Russian  *)
(* literals of the source (section headers, sentinel, fallback texts) are  *)
(* written transliterated and the bullet character is written "*"; every   *)
(* literal keeps its place and its role.                                   *)
(***************************************************************************)
EXTENDS Integers, Sequences, FiniteSets, TLC

VARIABLES
    pc,         \* lifecycle of the process: "start", the steps of __init__,
                \* "ready" once constructed, "crashed" when __init__ raised
    fs,         \* the files found on disk: the docs folder and CV.pdf
    mem0_kind,  \* self.mem0_kind: "none" | "platform" | "oss"
    mem0,       \* self.mem0: TRUE when a client object is held, FALSE for None
    dialog,     \* self.dialog: user id -> list of turns, keys created on demand
    ep_store,   \* the episodic backend's memories, per user id
    cv_col,     \* ids held by the persistent "cv_data" collection, in insertion order
    kb_col,     \* ids held by the persistent "kb_main" collection, in insertion order
    ret,        \* what the last call returned to its caller
    obs,        \* history: what the last call did (sources, failures, tiers tried)
    log,        \* history: every turn appended for each user, in call order
    ep_calls,   \* history: number of calls made on the episodic client
    ncalls,     \* history: number of public calls made so far
    heap,       \* the list objects of self.dialog, by object id (threaded runs)
    bound,      \* self.dialog as a binding: user id -> object id (threaded runs)
    frames,     \* each thread's position and locals in add_conversation_memory
    prefs_file, \* user_prefs.json: whether it exists and the dictionary it holds
    secret,     \* the environment's TELEGRAM_WEBHOOK_SECRET
    lock,       \* utils.user_prefs._LOCK: "free" or the thread that holds it
    pth         \* each thread's position and locals in utils.user_prefs.set

vars == <<pc, fs, mem0_kind, mem0, dialog, ep_store, cv_col, kb_col,
          ret, obs, log, ep_calls, ncalls, heap, bound, frames,
          prefs_file, secret, lock, pth>>

\* the variables only threaded runs use; one call at a time needs no object
\* identities, and dialog holds the lists by value
conc == <<heap, bound, frames>>

NoThreads ==
    /\ heap = <<>>
    /\ bound = <<>>
    /\ frames = <<>>

\* Python's None among the strings
None == "<None>"

\* the variables of the bot front ends (src/telegram_bot.py,
\* src/api/telegram-webhook.py, src/utils/user_prefs.py); the memory
\* subsystem does not touch them
bot == <<prefs_file, secret, lock, pth>>

NoBot ==
    /\ prefs_file = [exists |-> FALSE, db |-> <<>>]
    /\ secret = None
    /\ lock = "free"
    /\ pth = <<>>

(***************************************************************************)
(* Bounds of the model.                                                    *)
(***************************************************************************)
MaxAdds == 17

Users == {"u1", "u2"}

(***************************************************************************)
(* Program constants.                                                      *)
(***************************************************************************)
DialogLimit == 15
DialogKeep == 15

(***************************************************************************)
(* Python list helpers.                                                    *)
(***************************************************************************)
\* s[-n:] for n > 0
LastN(s, n) ==
    IF Len(s) <= n THEN s ELSE SubSeq(s, Len(s) - n + 1, Len(s))

\* s[:n] for n >= 0
FirstN(s, n) ==
    IF Len(s) <= n THEN s ELSE SubSeq(s, 1, n)

\* d.get(k, []) on the dialogue dictionary
DictGet(d, k) ==
    IF k \in DOMAIN d THEN d[k] ELSE <<>>

\* the n-th message text a user sends and the n-th response text
Msg(n) == "q" \o ToString(n)
Ans(n) == "a" \o ToString(n)

(***************************************************************************)
(* add_conversation_memory, short-term part (lines 124-127):               *)
(* setdefault, append, and the truncating reassignment.                    *)
(***************************************************************************)
\* Truncate keeping the oldest turns, hist[:15], instead of the newest
Truncate_KeepOldest(hist) ==
    IF Len(hist) > DialogLimit THEN FirstN(hist, DialogKeep) ELSE hist

Truncate(hist) ==
    IF Len(hist) > DialogLimit THEN LastN(hist, DialogKeep) ELSE hist

\* ShortTermAdd with one list shared by all users: the turn reaches every
\* user's history
ShortTermAdd_SharedList(d, user_id, message, response) ==
    [u \in DOMAIN d \cup {user_id} |->
        Truncate(Append(DictGet(d, u), [q |-> message, a |-> response]))]

ShortTermAdd(d, user_id, message, response) ==
    LET hist == Append(DictGet(d, user_id), [q |-> message, a |-> response])
    IN  [u \in DOMAIN d \cup {user_id} |->
            IF u = user_id THEN Truncate(hist) ELSE d[u]]

(***************************************************************************)
(* add_conversation_memory, episodic part (lines 130-143).  outcome is     *)
(* what the client's add does: "stored" or "raise"; the exception is       *)
(* caught at line 142.  Returns the new store, the number of client calls  *)
(* made and whether an exception left the function.                        *)
(***************************************************************************)
\* Mem0Add without the test of line 130
Mem0Add_NoClientCheck(store, client, user_id, message, outcome) ==
    IF outcome = "raise"
    THEN [store |-> store, calls |-> 1, raised |-> FALSE]
    ELSE [store |-> [store EXCEPT ![user_id] = Append(@, message)],
          calls |-> 1, raised |-> FALSE]

Mem0Add(store, client, user_id, message, outcome) ==
    IF ~client
    THEN [store |-> store, calls |-> 0, raised |-> FALSE]
    ELSE IF outcome = "raise"
    THEN [store |-> store, calls |-> 1, raised |-> FALSE]
    ELSE [store |-> [store EXCEPT ![user_id] = Append(@, message)],
          calls |-> 1, raised |-> FALSE]

AddOutcomes == {"stored", "raise"}

\* the state change of add_conversation_memory (lines 121-143): the
\* short-term part is done before the episodic part is tried
AddConversationMemory(user_id, message, response, m) ==
    /\ dialog' = ShortTermAdd(dialog, user_id, message, response)
    /\ ep_store' = m.store
    /\ log' = [log EXCEPT ![user_id] =
                  Append(@, [q |-> message, a |-> response])]

(***************************************************************************)
(* _init_mem0 (lines 12-51).  e is the environment of the call:            *)
(*   lib         the mem0 import succeeds                                  *)
(*   api_key     settings.MEM0_API_KEY or the environment variable is set  *)
(*   platform_ok MemoryClient(api_key=...) returns (FALSE: it raises)      *)
(*   gemini_key  settings.GEMINI_API_KEY is non-empty                      *)
(*   oss_ok      Memory.from_config(config) returns (FALSE: it raises)     *)
(* The result carries kind and client as the code returns them, the tiers  *)
(* whose constructor was called, in call order, and whether an exception   *)
(* left the function.                                                      *)
(***************************************************************************)
Mem0Envs ==
    [lib : BOOLEAN, api_key : BOOLEAN, platform_ok : BOOLEAN,
     gemini_key : BOOLEAN, oss_ok : BOOLEAN]

\* PlatformTier without the try of lines 23-28
PlatformTier_Uncaught(e) ==
    IF ~e.api_key THEN [tried |-> <<>>, selected |-> FALSE, raised |-> FALSE]
    ELSE IF e.platform_ok
         THEN [tried |-> <<"platform">>, selected |-> TRUE, raised |-> FALSE]
         ELSE [tried |-> <<"platform">>, selected |-> FALSE, raised |-> TRUE]

\* lines 21-28: the platform tier; a constructor exception is caught at line 27
PlatformTier(e) ==
    IF ~e.api_key THEN [tried |-> <<>>, selected |-> FALSE, raised |-> FALSE]
    ELSE IF e.platform_ok
         THEN [tried |-> <<"platform">>, selected |-> TRUE, raised |-> FALSE]
         ELSE [tried |-> <<"platform">>, selected |-> FALSE, raised |-> FALSE]

\* lines 31-48: the OSS tier; a constructor exception is caught at line 47
OssTier(e) ==
    IF ~e.gemini_key THEN [tried |-> <<>>, selected |-> FALSE, raised |-> FALSE]
    ELSE IF e.oss_ok
         THEN [tried |-> <<"oss">>, selected |-> TRUE, raised |-> FALSE]
         ELSE [tried |-> <<"oss">>, selected |-> FALSE, raised |-> FALSE]

InitMem0(e) ==
    IF ~e.lib
    THEN [kind |-> "none", client |-> FALSE, tried |-> <<>>, raised |-> FALSE]
    ELSE
    LET p == PlatformTier(e) IN
    IF p.raised
    THEN [kind |-> "none", client |-> FALSE, tried |-> p.tried, raised |-> TRUE]
    ELSE IF p.selected
    THEN [kind |-> "platform", client |-> TRUE, tried |-> p.tried, raised |-> FALSE]
    ELSE
    LET o == OssTier(e) IN
    IF o.raised
    THEN [kind |-> "none", client |-> FALSE, tried |-> p.tried \o o.tried,
          raised |-> TRUE]
    ELSE IF o.selected
    THEN [kind |-> "oss", client |-> TRUE, tried |-> p.tried \o o.tried,
          raised |-> FALSE]
    ELSE [kind |-> "none", client |-> FALSE, tried |-> p.tried \o o.tried,
          raised |-> FALSE]

(***************************************************************************)
(* The profile record CV_DATA (src/config.py), as far as the ids of the    *)
(* CV fragments depend on it: the number of highlights of each work entry  *)
(* and the number of achievement statements.                               *)
(***************************************************************************)
WorkHighlights == <<3, 3, 3>>
NumAchievements == 8

RECURSIVE Flatten(_)
Flatten(ss) ==
    IF ss = <<>> THEN <<>> ELSE Head(ss) \o Flatten(Tail(ss))

\* lines 260-273: the ids of work entry i (numbered from 0 by enumerate)
WorkIds(i) ==
    <<"cv_work_" \o ToString(i) \o "_full", "cv_work_" \o ToString(i) \o "_brief">>
    \o [j \in 1..WorkHighlights[i + 1] |->
           "cv_work_" \o ToString(i) \o "_hl_" \o ToString(j - 1)]

\* lines 239-317: the ids list built by _index_cv_thoroughly, in order
CvIds ==
    <<"cv_personal_1", "cv_personal_2", "cv_contacts_1", "cv_contacts_2">>
    \o Flatten([i \in 1..Len(WorkHighlights) |-> WorkIds(i - 1)])
    \o <<"cv_skills_models", "cv_skills_frameworks", "cv_skills_infra",
         "cv_skills_all", "cv_education">>
    \o [i \in 1..NumAchievements |-> "cv_achievement_" \o ToString(i - 1)]

\* collection.count()
Count(col) == Len(col)

\* the text stored for a CV fragment, and for a chunk of a document (a
\* window of the text may end in a space)
CvText(id) == "cv text " \o id
KbText(id) == "chunk " \o id \o " "

(***************************************************************************)
(* _index_cv_thoroughly (lines 233-329).  add is what cv_col.add does      *)
(* ("ok" | "raise"), smoke what the five self-check queries do ("ok" |     *)
(* "raise"); neither call is inside a try, so an exception leaves the      *)
(* function.  Returns the collection and whether the call raised.          *)
(***************************************************************************)
CallOutcomes == {"ok", "raise"}

\* IndexCvThoroughly without the guard of lines 235-237
IndexCvThoroughly_NoGuard(col, add, smoke) ==
    IF CvIds = <<>> THEN [col |-> col, raised |-> FALSE]
    ELSE IF add = "raise" THEN [col |-> col, raised |-> TRUE]
    ELSE [col |-> col \o CvIds, raised |-> (smoke = "raise")]

IndexCvThoroughly(col, add, smoke) ==
    IF Count(col) > 0 THEN [col |-> col, raised |-> FALSE]
    ELSE IF CvIds = <<>> THEN [col |-> col, raised |-> FALSE]
    ELSE IF add = "raise" THEN [col |-> col, raised |-> TRUE]
    ELSE [col |-> col \o CvIds, raised |-> (smoke = "raise")]

(***************************************************************************)
(* Document ingestion (lines 331-359).  A file is [stem, chunks]: its      *)
(* name without suffix and the number of fragments _chunk_texts emits for  *)
(* its text (0 for an unreadable, empty or short file).  The ids of one    *)
(* chunking call are prefix_1 .. prefix_n (line 394).                      *)
(***************************************************************************)
StemChars == 20
KbPopulated == 20

ChunkIds(prefix, n) ==
    [i \in 1..n |-> prefix \o "_" \o ToString(i)]

\* collection.add(documents, ids): the ids not yet held are appended
ColAdd(col, ids) ==
    col \o SelectSeq(ids, LAMBDA x : \A i \in 1..Len(col) : col[i] # x)

\* lines 353-359: okAdds is the number of kb_col.add calls that succeed
\* before one raises; the exception is not caught and leaves the function.
\* submitted lists the ids passed to kb_col.add, in call order
RECURSIVE IngestFiles(_, _, _)
IngestFiles(col, files, okAdds) ==
    IF files = <<>> THEN [col |-> col, raised |-> FALSE, submitted |-> <<>>]
    ELSE LET f == Head(files)
             ids == ChunkIds(FirstN(f.stem, StemChars), f.chunks)
         IN  IF ids = <<>> THEN IngestFiles(col, Tail(files), okAdds)
             ELSE IF okAdds = 0
             THEN [col |-> col, raised |-> TRUE, submitted |-> ids]
             ELSE LET r == IngestFiles(ColAdd(col, ids), Tail(files), okAdds - 1)
                  IN  [r EXCEPT !.submitted = ids \o @]

\* lines 345-359: files is the glob result, empty when the folder is absent
MaybeIngestDocs(col, files, okAdds) ==
    IF files = <<>> THEN [col |-> col, raised |-> FALSE, submitted |-> <<>>]
    ELSE IngestFiles(col, files, okAdds)

\* lines 331-343
MaybeIngestSinglePdf(col, pdf, add) ==
    LET skip == [col |-> col, raised |-> FALSE, submitted |-> <<>>]
    IN  IF ~pdf.exists THEN skip
        ELSE IF Count(col) > KbPopulated THEN skip
        ELSE LET ids == ChunkIds("CV_PDF", pdf.chunks)
             IN  IF ids = <<>> THEN skip
                 ELSE IF add = "raise"
                 THEN [col |-> col, raised |-> TRUE, submitted |-> ids]
                 ELSE [col |-> ColAdd(col, ids), raised |-> FALSE,
                       submitted |-> ids]

(***************************************************************************)
(* Python string helpers.                                                  *)
(***************************************************************************)
IsSpace(c) == c \in {" ", "\n", "\t"}

RECURSIVE LStrip(_)
LStrip(s) ==
    IF Len(s) > 0 /\ IsSpace(SubSeq(s, 1, 1))
    THEN LStrip(SubSeq(s, 2, Len(s))) ELSE s

RECURSIVE RStrip(_)
RStrip(s) ==
    IF Len(s) > 0 /\ IsSpace(SubSeq(s, Len(s), Len(s)))
    THEN RStrip(SubSeq(s, 1, Len(s) - 1)) ELSE s

\* s.strip()
Strip(s) == RStrip(LStrip(s))

\* sep.join(parts) for a non-empty list
RECURSIVE Join(_, _)
Join(parts, sep) ==
    IF Len(parts) = 1 THEN parts[1]
    ELSE parts[1] \o sep \o Join(Tail(parts), sep)

(***************************************************************************)
(* _mem0_search (lines 185-202).  out is what the client's search does:    *)
(* it raises, or it answers with a list of memory texts; the platform      *)
(* client is passed limit=k, the OSS client is not, and both answers are   *)
(* cut to k.  An answer of an unexpected shape raises inside the try like  *)
(* any other failure.  Returns the list, the number of client calls made   *)
(* and whether an exception left the function.                             *)
(***************************************************************************)
\* Mem0Search without the try of lines 189-202
Mem0Search_Uncaught(client, kind, k, out) ==
    IF ~client THEN [value |-> <<>>, calls |-> 0, raised |-> FALSE]
    ELSE IF out.raise THEN [value |-> <<>>, calls |-> 1, raised |-> TRUE]
    ELSE [value |-> FirstN(out.memories, k), calls |-> 1, raised |-> FALSE]

Mem0Search(client, kind, k, out) ==
    IF ~client THEN [value |-> <<>>, calls |-> 0, raised |-> FALSE]
    ELSE IF out.raise THEN [value |-> <<>>, calls |-> 1, raised |-> FALSE]
    ELSE IF kind = "platform"
         THEN [value |-> FirstN(out.memories, k), calls |-> 1, raised |-> FALSE]
         ELSE [value |-> FirstN(out.memories, k), calls |-> 1, raised |-> FALSE]

(***************************************************************************)
(* _kb_search (lines 204-215) and _cv_search (lines 217-231).  out is what *)
(* the collection does when asked: it raises (count or query), or query    *)
(* answers with documents and distances.  Distances and scores are in      *)
(* hundredths: score = 1 - distance is One - dist, the thresholds 0.3 and  *)
(* 0.2 are 30 and 20.                                                      *)
(***************************************************************************)
One == 100
KbThreshold == 30
CvThreshold == 20

\* Retrieve with >= in the place of >
Retrieve_NonStrict(docs, dists, t) ==
    LET n == IF Len(docs) < Len(dists) THEN Len(docs) ELSE Len(dists)
        all == [i \in 1..n |-> [text |-> docs[i], score |-> One - dists[i]]]
    IN  SelectSeq(all, LAMBDA r : r.score >= t)

\* [Retrieved(text=d, score=1-dist) for d, dist in zip(docs, dists) if 1-dist > t]
Retrieve(docs, dists, t) ==
    LET n == IF Len(docs) < Len(dists) THEN Len(docs) ELSE Len(dists)
        all == [i \in 1..n |-> [text |-> docs[i], score |-> One - dists[i]]]
    IN  SelectSeq(all, LAMBDA r : r.score > t)

\* n_results=k, whatever the collection holds
NResults_NoClamp(col, k) == k

\* n_results=min(k, col.count()) at lines 209 and 223
NResults(col, k) == IF k < Count(col) THEN k ELSE Count(col)

\* col.query(query_texts=[query], n_results=n): the n best of the ranking
\* the backend computes for the query
Query(out, n) ==
    [docs |-> FirstN(out.docs, n), dists |-> FirstN(out.dists, n)]

\* asked is the n_results of every query the call issued.  A failing
\* backend (out.raise) fails in count() when the collection is empty, as no
\* query is issued then, and in query() otherwise.

\* KbSearch without the try of lines 206-215
KbSearch_Uncaught(col, k, out) ==
    IF Count(col) = 0
    THEN [value |-> <<>>, raised |-> out.raise, asked |-> <<>>]
    ELSE IF out.raise
    THEN [value |-> <<>>, raised |-> TRUE, asked |-> <<NResults(col, k)>>]
    ELSE LET r == Query(out, NResults(col, k))
         IN  [value |-> Retrieve(r.docs, r.dists, KbThreshold), raised |-> FALSE,
              asked |-> <<NResults(col, k)>>]

KbSearch(col, k, out) ==
    IF Count(col) = 0
    THEN [value |-> <<>>, raised |-> FALSE, asked |-> <<>>]
    ELSE IF out.raise
    THEN [value |-> <<>>, raised |-> FALSE, asked |-> <<NResults(col, k)>>]
    ELSE LET r == Query(out, NResults(col, k))
         IN  [value |-> Retrieve(r.docs, r.dists, KbThreshold), raised |-> FALSE,
              asked |-> <<NResults(col, k)>>]

CvSearch(col, k, out) ==
    IF Count(col) = 0
    THEN [value |-> <<>>, raised |-> FALSE, asked |-> <<>>]
    ELSE IF out.raise
    THEN [value |-> <<>>, raised |-> FALSE, asked |-> <<NResults(col, k)>>]
    ELSE LET r == Query(out, NResults(col, k))
         IN  [value |-> Retrieve(r.docs, r.dists, CvThreshold), raised |-> FALSE,
              asked |-> <<NResults(col, k)>>]

(***************************************************************************)
(* get_relevant_context (lines 145-183), given what the three searches     *)
(* returned and the user's dialogue history.                               *)
(***************************************************************************)
KEp == 5
KKb == 8
KCv == 6
TailTurns == 3
AnswerChars == 200
KbShown == 5
KbChars == 300

HeaderCv == "=== DANNYE IZ CV FIRDAVSA ==="
HeaderKb == "\n=== DOPOLNITELNYE DOKUMENTY ==="
HeaderEp == "\n=== ISTORIYA DIALOGA (mem0) ==="
HeaderTail == "\n=== NEDAVNIE SOOBSHCHENIYA ==="
Sentinel == "Kontekst ne naiden."
Bullet == "* "

\* TailOf without the [:200] of line 154
TailOf_WholeAnswer(hist) ==
    LET last == LastN(hist, TailTurns)
    IN  [i \in 1..Len(last) |->
            "User: " \o last[i].q \o "\nAssistant: " \o last[i].a]

\* lines 152-154
TailOf(hist) ==
    LET last == LastN(hist, TailTurns)
    IN  [i \in 1..Len(last) |->
            "User: " \o last[i].q \o "\nAssistant: "
                \o FirstN(last[i].a, AnswerChars)]

\* lines 159-162
CvSection(cv) ==
    IF cv = <<>> THEN <<>>
    ELSE <<HeaderCv>> \o [i \in 1..Len(cv) |-> Bullet \o Strip(cv[i].text)]

\* KbSection without the [:5] of line 166
KbSection_NoCap(kb) ==
    IF kb = <<>> THEN <<>>
    ELSE <<HeaderKb>> \o [i \in 1..Len(kb) |->
             Bullet \o FirstN(Strip(kb[i].text), KbChars)]

\* lines 164-167
KbSection(kb) ==
    IF kb = <<>> THEN <<>>
    ELSE LET shown == FirstN(kb, KbShown)
         IN  <<HeaderKb>> \o [i \in 1..Len(shown) |->
                 Bullet \o FirstN(Strip(shown[i].text), KbChars)]

\* lines 169-172
EpSection(ep) ==
    IF ep = <<>> THEN <<>>
    ELSE <<HeaderEp>> \o [i \in 1..Len(ep) |-> Bullet \o Strip(ep[i])]

\* lines 174-176
TailSection(tail) ==
    IF tail = <<>> THEN <<>> ELSE <<HeaderTail>> \o tail

\* Parts with the KB section rendered before the CV section
Parts_KbFirst(ep, kb, cv, tail) ==
    KbSection(kb) \o CvSection(cv) \o EpSection(ep) \o TailSection(tail)

\* lines 156-176: the list parts
Parts(ep, kb, cv, tail) ==
    CvSection(cv) \o KbSection(kb) \o EpSection(ep) \o TailSection(tail)

\* Context without the sentinel of line 178
Context_EmptyString(parts) ==
    IF parts # <<>> THEN Join(parts, "\n") ELSE ""

\* line 178
Context(parts) ==
    IF parts # <<>> THEN Join(parts, "\n") ELSE Sentinel

\* lines 147-183: e, k, c are the results of the three searches; an
\* exception that leaves a search leaves get_relevant_context
GetRelevantContext(e, k, c, hist) ==
    LET tail == TailOf(hist)
        parts == Parts(e.value, k.value, c.value, tail)
    IN  IF e.raised \/ k.raised \/ c.raised
        THEN [raised |-> TRUE, text |-> "", parts |-> <<>>, tail |-> <<>>]
        ELSE [raised |-> FALSE, text |-> Context(parts), parts |-> parts,
              tail |-> tail]

(***************************************************************************)
(* The files a process may find on disk: none; or two documents, one of    *)
(* them without text, and a CV.pdf.                                        *)
(***************************************************************************)
SmallDoc == 2

NoFiles == [docs |-> <<>>, pdf |-> [exists |-> FALSE, chunks |-> 0]]

FsChoices ==
    { NoFiles,
      [docs |-> <<[stem |-> "handbook_of_the_whole_project", chunks |-> SmallDoc],
                  [stem |-> "empty", chunks |-> 0]>>,
       pdf |-> [exists |-> TRUE, chunks |-> 1]] }

(***************************************************************************)
(* MemoryManager.__init__ (lines 65-119), one action per call it makes.    *)
(* An exception that leaves one of them leaves __init__: the process has   *)
(* no manager ("crashed"); what was written to the collections stays.      *)
(***************************************************************************)
MaxCalls == 2

\* lines 73-79 and 94-114: _init_mem0, the empty dialogue dictionary, and
\* the two collections opened (created when absent) from the persistent store
Start ==
    /\ pc = "start"
    /\ \E e \in Mem0Envs :
          LET m == InitMem0(e)
          IN  /\ mem0_kind' = m.kind
              /\ mem0' = m.client
              /\ pc' = IF m.raised THEN "crashed" ELSE "index_cv"
              /\ ret' = [op |-> "init_mem0", raised |-> m.raised, text |-> ""]
              /\ obs' = [op |-> "init_mem0", env |-> e, tried |-> m.tried]
    /\ dialog' = <<>>
    /\ log' = [u \in Users |-> <<>>]
    /\ UNCHANGED <<fs, ep_store, cv_col, kb_col, ep_calls, ncalls>>
    /\ UNCHANGED conc
    /\ UNCHANGED bot

\* line 117
IndexCv ==
    /\ pc = "index_cv"
    /\ \E add \in CallOutcomes, smoke \in CallOutcomes :
          LET r == IndexCvThoroughly(cv_col, add, smoke)
          IN  /\ cv_col' = r.col
              /\ pc' = IF r.raised THEN "crashed" ELSE "ingest_docs"
              /\ ret' = [op |-> "index_cv", raised |-> r.raised, text |-> ""]
              /\ obs' = [op |-> "index_cv", before |-> Count(cv_col)]
    /\ UNCHANGED <<fs, mem0_kind, mem0, dialog, ep_store, kb_col,
                   log, ep_calls, ncalls>>
    /\ UNCHANGED conc
    /\ UNCHANGED bot

\* line 118
IngestDocs ==
    /\ pc = "ingest_docs"
    /\ \E okAdds \in 0..Len(fs.docs) :
          LET r == MaybeIngestDocs(kb_col, fs.docs, okAdds)
          IN  /\ kb_col' = r.col
              /\ pc' = IF r.raised THEN "crashed" ELSE "ingest_pdf"
              /\ ret' = [op |-> "ingest_docs", raised |-> r.raised, text |-> ""]
              /\ obs' = [op |-> "ingest_docs", before |-> Count(kb_col),
                         submitted |-> r.submitted]
    /\ UNCHANGED <<fs, mem0_kind, mem0, dialog, ep_store, cv_col,
                   log, ep_calls, ncalls>>
    /\ UNCHANGED conc
    /\ UNCHANGED bot

\* line 119
IngestSinglePdf ==
    /\ pc = "ingest_pdf"
    /\ \E add \in CallOutcomes :
          LET r == MaybeIngestSinglePdf(kb_col, fs.pdf, add)
          IN  /\ kb_col' = r.col
              /\ pc' = IF r.raised THEN "crashed" ELSE "ready"
              /\ ret' = [op |-> "ingest_pdf", raised |-> r.raised, text |-> ""]
              /\ obs' = [op |-> "ingest_pdf", before |-> Count(kb_col),
                         submitted |-> obs.submitted \o r.submitted]
    /\ UNCHANGED <<fs, mem0_kind, mem0, dialog, ep_store, cv_col,
                   log, ep_calls, ncalls>>
    /\ UNCHANGED conc
    /\ UNCHANGED bot

\* the process ends and a new one starts against the same persistent store
\* and the same episodic backend; the in-memory dialogue is gone
Restart ==
    /\ pc \in {"ready", "crashed"}
    /\ ncalls < MaxCalls
    /\ ncalls' = ncalls + 1
    /\ pc' = "start"
    /\ dialog' = <<>>
    /\ log' = [u \in Users |-> <<>>]
    /\ ret' = [op |-> "restart", raised |-> FALSE, text |-> ""]
    /\ obs' = [op |-> "restart"]
    /\ UNCHANGED <<fs, mem0_kind, mem0, ep_store, cv_col, kb_col, ep_calls>>
    /\ UNCHANGED conc
    /\ UNCHANGED bot

\* a call of add_conversation_memory (lines 121-143)
Add ==
    /\ pc = "ready"
    /\ ncalls < MaxCalls
    /\ \E u \in Users, outcome \in AddOutcomes :
          LET message == Msg(ncalls + 1)
              response == Ans(ncalls + 1)
              m == Mem0Add(ep_store, mem0, u, message, outcome)
          IN  /\ AddConversationMemory(u, message, response, m)
              /\ ep_calls' = ep_calls + m.calls
              /\ ret' = [op |-> "add", raised |-> m.raised, text |-> ""]
              /\ obs' = [op |-> "add", user |-> u, message |-> message,
                         response |-> response, outcome |-> outcome,
                         before |-> Len(DictGet(dialog, u)), calls |-> m.calls]
    /\ ncalls' = ncalls + 1
    /\ UNCHANGED <<pc, fs, mem0_kind, mem0, cv_col, kb_col>>
    /\ UNCHANGED conc
    /\ UNCHANGED bot

(***************************************************************************)
(* What the backends may answer in specification Spec.  A collection ranks *)
(* its fragments for the query, the first j of them near the query and the *)
(* rest far from it; the episodic backend answers with none or all of the  *)
(* user's memories.                                                        *)
(***************************************************************************)
Near == 10
Far == 95

\* the text held for id in collection which ("cv" or "kb")
TextOf(which, id) == IF which = "cv" THEN CvText(id) ELSE KbText(id)

Ranking(col, which, j) ==
    [raise |-> FALSE,
     docs |-> [i \in 1..Len(col) |-> TextOf(which, col[i])],
     dists |-> [i \in 1..Len(col) |-> IF i <= j THEN Near ELSE Far]]

QueryOutcomes(col, which) ==
    {[raise |-> TRUE, docs |-> <<>>, dists |-> <<>>]}
    \cup {Ranking(col, which, j) : j \in {0, 1, Count(col)} \cap 0..Count(col)}

EpOutcomes(memories) ==
    {[raise |-> TRUE, memories |-> <<>>]}
    \cup {[raise |-> FALSE, memories |-> FirstN(memories, j)] :
             j \in {0, Len(memories)}}

\* which of the three backends raised during a call
Failed(client, eo, ko, co) ==
    (IF client /\ eo.raise THEN {"ep"} ELSE {})
    \cup (IF ko.raise THEN {"kb"} ELSE {})
    \cup (IF co.raise THEN {"cv"} ELSE {})

\* one run of get_relevant_context(query, u) with the default limits (line
\* 145) in the current state, the backends answering eo, ko and co
ContextRun(u, eo, ko, co) ==
    LET e == Mem0Search(mem0, mem0_kind, KEp, eo)
        k == KbSearch(kb_col, KKb, ko)
        c == CvSearch(cv_col, KCv, co)
        r == GetRelevantContext(e, k, c, DictGet(dialog, u))
    IN  [raised |-> r.raised, text |-> r.text, parts |-> r.parts,
         ep |-> e.value, kb |-> k.value, cv |-> c.value, tail |-> r.tail,
         calls |-> e.calls, failed |-> Failed(mem0, eo, ko, co),
         asked |-> [kb |-> k.asked, cv |-> c.asked]]

\* every run the backends allow
ContextRuns(u) ==
    {ContextRun(u, eo, ko, co) :
        eo \in EpOutcomes(ep_store[u]),
        ko \in QueryOutcomes(kb_col, "kb"),
        co \in QueryOutcomes(cv_col, "cv")}

\* dict.setdefault in the place of dict.get: the key is created
DialogAfterGet_SetDefault(d, k) ==
    [u \in DOMAIN d \cup {k} |-> IF u \in DOMAIN d THEN d[u] ELSE <<>>]

\* line 153: self.dialog.get(user_id, []) leaves the dictionary as it is,
\* also when user_id is no key of it
DialogAfterGet(d, k) == d

\* a call of get_relevant_context (lines 145-183)
GetContext ==
    /\ pc = "ready"
    /\ ncalls < MaxCalls
    /\ \E u \in Users :
       \E r \in ContextRuns(u) :
          /\ ret' = [op |-> "context", raised |-> r.raised, text |-> r.text]
          /\ obs' = [op |-> "context", user |-> u, ep |-> r.ep, kb |-> r.kb,
                     cv |-> r.cv, tail |-> r.tail, parts |-> r.parts,
                     calls |-> r.calls, failed |-> r.failed,
                     asked |-> r.asked]
          /\ ep_calls' = ep_calls + r.calls
          /\ dialog' = DialogAfterGet(dialog, u)
    /\ ncalls' = ncalls + 1
    /\ UNCHANGED <<pc, fs, mem0_kind, mem0, ep_store, cv_col, kb_col, log>>
    /\ UNCHANGED conc
    /\ UNCHANGED bot

(***************************************************************************)
(* FirdavsAIAgent.generate_response (src/ai_agent.py, lines 16-60).  g is  *)
(* what the generation backend does: generate_content or resp.text raises, *)
(* or the response carries a text.                                         *)
(***************************************************************************)
FallbackEmpty == "Hm, chto-to poshlo ne tak. Davai ya luchshe rasskazhu pro opyt Firdavsa v AI?"
FallbackError == "Ups, tekhnicheskie nepoladki. Poprobui sprosit eshche raz?"

GenOutcomes ==
    {[raise |-> TRUE, text |-> ""]}
    \cup {[raise |-> FALSE, text |-> t] : t \in {"", " \n", " otvet \n"}}

\* ResponseText without the substitution of lines 53-54
ResponseText_NoFallback(g) ==
    IF g.raise THEN FallbackError ELSE Strip(g.text)

\* lines 50-57: the text generate_response goes on with
ResponseText(g) ==
    IF g.raise THEN FallbackError
    ELSE IF Strip(g.text) = "" THEN FallbackEmpty
    ELSE Strip(g.text)

\* a call of generate_response: context assembly (line 18), generation
\* (lines 50-57), add_conversation_memory (line 59), return (line 60); an
\* exception leaving get_relevant_context leaves generate_response at line 18
GenerateResponse ==
    /\ pc = "ready"
    /\ ncalls < MaxCalls
    /\ \E u \in Users :
       \E r \in {[raised |-> x.raised, calls |-> x.calls] : x \in ContextRuns(u)},
          g \in GenOutcomes, outcome \in AddOutcomes :
          LET text == ResponseText(g)
              message == Msg(ncalls + 1)
              m == Mem0Add(ep_store, mem0, u, message, outcome)
              seen == [op |-> "generate", user |-> u, gen |-> g,
                       message |-> message, outcome |-> outcome,
                       before |-> Len(DictGet(dialog, u))]
          IN  IF r.raised
              THEN /\ ret' = [op |-> "generate", raised |-> TRUE, text |-> ""]
                   /\ obs' = seen @@ [calls |-> r.calls]
                   /\ ep_calls' = ep_calls + r.calls
                   /\ UNCHANGED <<dialog, ep_store, log>>
              ELSE /\ AddConversationMemory(u, message, text, m)
                   /\ ret' = [op |-> "generate", raised |-> m.raised,
                              text |-> IF m.raised THEN "" ELSE text]
                   /\ obs' = seen @@ [calls |-> r.calls + m.calls]
                   /\ ep_calls' = ep_calls + r.calls + m.calls
    /\ ncalls' = ncalls + 1
    /\ UNCHANGED <<pc, fs, mem0_kind, mem0, cv_col, kb_col>>
    /\ UNCHANGED conc
    /\ UNCHANGED bot

Init ==
    /\ pc = "start"
    /\ fs \in FsChoices
    /\ mem0_kind = "none"
    /\ mem0 = FALSE
    /\ dialog = <<>>
    /\ ep_store = [u \in Users |-> <<>>]
    /\ cv_col = <<>>
    /\ kb_col = <<>>
    /\ ret = [op |-> "none", raised |-> FALSE, text |-> ""]
    /\ obs = [op |-> "none"]
    /\ log = [u \in Users |-> <<>>]
    /\ ep_calls = 0
    /\ ncalls = 0
    /\ NoThreads
    /\ NoBot

Next ==
    \/ Start
    \/ IndexCv
    \/ IngestDocs
    \/ IngestSinglePdf
    \/ Restart
    \/ Add
    \/ GetContext
    \/ GenerateResponse

Spec == Init /\ [][Next]_vars

(***************************************************************************)
(* Specification SpecIngest: one startup against an empty store, for the   *)
(* docs folders a deployment may hold.  A file is named as on disk; the    *)
(* glob of line 349 lists the pdf files, then the txt files, then the md   *)
(* files.                                                                  *)
(***************************************************************************)
\* the index of the last "." of name, 0 when there is none
RECURSIVE LastDot(_, _)
LastDot(name, i) ==
    IF i = 0 THEN 0
    ELSE IF SubSeq(name, i, i) = "." THEN i
    ELSE LastDot(name, i - 1)

\* Path(name).stem: the name without its last suffix
Stem(name) ==
    LET i == LastDot(name, Len(name))
    IN  IF i <= 1 THEN name ELSE SubSeq(name, 1, i - 1)

File(name, chunks) == [name |-> name, stem |-> Stem(name), chunks |-> chunks]

\* the files a docs folder may hold, in glob order
DocFiles ==
    <<File("report.pdf", SmallDoc),
      File("quarterly_report_2024_final_v1.pdf", 1),
      File("report.txt", 1),
      File("quarterly_report_2024_final_v2.txt", 1),
      File("notes.md", 1)>>

IngestFsChoices ==
    { [docs |-> d, pdf |-> [exists |-> e, chunks |-> 1]] :
        d \in {<<>>}
              \cup {<<DocFiles[i]>> : i \in 1..Len(DocFiles)}
              \cup {<<DocFiles[p[1]], DocFiles[p[2]]>> :
                        p \in {q \in (1..Len(DocFiles)) \X (1..Len(DocFiles)) :
                                  q[1] < q[2]}},
        e \in BOOLEAN }

InitIngest ==
    /\ pc = "start"
    /\ fs \in IngestFsChoices
    /\ mem0_kind = "none"
    /\ mem0 = FALSE
    /\ dialog = <<>>
    /\ ep_store = [u \in Users |-> <<>>]
    /\ cv_col = <<>>
    /\ kb_col = <<>>
    /\ ret = [op |-> "none", raised |-> FALSE, text |-> ""]
    /\ obs = [op |-> "none"]
    /\ log = [u \in Users |-> <<>>]
    /\ ep_calls = 0
    /\ ncalls = 0
    /\ NoThreads
    /\ NoBot

NextIngest ==
    \/ Start
    \/ IndexCv
    \/ IngestDocs
    \/ IngestSinglePdf

SpecIngest == InitIngest /\ [][NextIngest]_vars

(***************************************************************************)
(* Specification SpecHang: get_relevant_context step by step.  The three   *)
(* searches are synchronous calls (lines 147-149): the caller issues the   *)
(* call and goes on when the backend answers or raises.  Nothing in        *)
(* lines 145-231 bounds how long a call may take.  The interpreter keeps   *)
(* running the program (weak fairness on the program's own steps); a       *)
(* backend owes no answer (no fairness on the Return steps).               *)
(***************************************************************************)
Pending == [value |-> <<>>, calls |-> 0, raised |-> FALSE]

\* kb_main as one construction leaves it for the files on disk
KbAfterInit(f) ==
    MaybeIngestSinglePdf(MaybeIngestDocs(<<>>, f.docs, Len(f.docs)).col,
                         f.pdf, "ok").col

InitHang ==
    /\ pc = "ready"
    /\ fs \in FsChoices
    /\ mem0_kind \in {"none", "platform", "oss"}
    /\ mem0 = (mem0_kind # "none")
    /\ dialog = <<>>
    /\ ep_store = [u \in Users |-> <<>>]
    /\ cv_col = CvIds
    /\ kb_col = KbAfterInit(fs)
    /\ ret = [op |-> "none", raised |-> FALSE, text |-> ""]
    /\ obs = [op |-> "none"]
    /\ log = [u \in Users |-> <<>>]
    /\ ep_calls = 0
    /\ ncalls = 0
    /\ NoThreads
    /\ NoBot

\* line 145: the call is entered
CtxBegin ==
    /\ pc = "ready"
    /\ ncalls < MaxCalls
    /\ \E u \in Users :
          obs' = [op |-> "frame", user |-> u,
                  e |-> Pending, k |-> Pending, c |-> Pending]
    /\ pc' = "ctx_ep"
    /\ ncalls' = ncalls + 1
    /\ UNCHANGED <<fs, mem0_kind, mem0, dialog, ep_store, cv_col, kb_col,
                   ret, log, ep_calls>>
    /\ UNCHANGED conc
    /\ UNCHANGED bot

\* lines 147 and 187-191/198: without a client the result is [] at once,
\* with one the client's search is called
EpSearchCall ==
    /\ pc = "ctx_ep"
    /\ IF ~mem0
       THEN /\ pc' = "ctx_kb"
            /\ obs' = [obs EXCEPT !.e = Mem0Search(mem0, mem0_kind, KEp,
                          [raise |-> FALSE, memories |-> <<>>])]
            /\ UNCHANGED ep_calls
       ELSE /\ pc' = "ctx_ep_wait"
            /\ ep_calls' = ep_calls + 1
            /\ UNCHANGED obs
    /\ UNCHANGED <<fs, mem0_kind, mem0, dialog, ep_store, cv_col, kb_col,
                   ret, log, ncalls>>
    /\ UNCHANGED conc
    /\ UNCHANGED bot

\* the episodic backend answers or raises; lines 192-202 go on
EpSearchReturn ==
    /\ pc = "ctx_ep_wait"
    /\ \E eo \in EpOutcomes(ep_store[obs.user]) :
          obs' = [obs EXCEPT !.e = Mem0Search(mem0, mem0_kind, KEp, eo)]
    /\ pc' = "ctx_kb"
    /\ UNCHANGED <<fs, mem0_kind, mem0, dialog, ep_store, cv_col, kb_col,
                   ret, log, ep_calls, ncalls>>
    /\ UNCHANGED conc
    /\ UNCHANGED bot

\* lines 148 and 206-209: an empty collection gives [] at once, otherwise
\* the collection is queried
KbSearchCall ==
    /\ pc = "ctx_kb"
    /\ IF Count(kb_col) = 0
       THEN /\ pc' = "ctx_cv"
            /\ obs' = [obs EXCEPT !.k = KbSearch(kb_col, KKb,
                          [raise |-> FALSE, docs |-> <<>>, dists |-> <<>>])]
       ELSE /\ pc' = "ctx_kb_wait"
            /\ UNCHANGED obs
    /\ UNCHANGED <<fs, mem0_kind, mem0, dialog, ep_store, cv_col, kb_col,
                   ret, log, ep_calls, ncalls>>
    /\ UNCHANGED conc
    /\ UNCHANGED bot

\* the vector store answers or raises; lines 210-215 go on
KbSearchReturn ==
    /\ pc = "ctx_kb_wait"
    /\ \E ko \in QueryOutcomes(kb_col, "kb") :
          obs' = [obs EXCEPT !.k = KbSearch(kb_col, KKb, ko)]
    /\ pc' = "ctx_cv"
    /\ UNCHANGED <<fs, mem0_kind, mem0, dialog, ep_store, cv_col, kb_col,
                   ret, log, ep_calls, ncalls>>
    /\ UNCHANGED conc
    /\ UNCHANGED bot

\* lines 149 and 219-223
CvSearchCall ==
    /\ pc = "ctx_cv"
    /\ IF Count(cv_col) = 0
       THEN /\ pc' = "ctx_render"
            /\ obs' = [obs EXCEPT !.c = CvSearch(cv_col, KCv,
                          [raise |-> FALSE, docs |-> <<>>, dists |-> <<>>])]
       ELSE /\ pc' = "ctx_cv_wait"
            /\ UNCHANGED obs
    /\ UNCHANGED <<fs, mem0_kind, mem0, dialog, ep_store, cv_col, kb_col,
                   ret, log, ep_calls, ncalls>>
    /\ UNCHANGED conc
    /\ UNCHANGED bot

\* the vector store answers or raises; lines 224-231 go on
CvSearchReturn ==
    /\ pc = "ctx_cv_wait"
    /\ \E co \in QueryOutcomes(cv_col, "cv") :
          obs' = [obs EXCEPT !.c = CvSearch(cv_col, KCv, co)]
    /\ pc' = "ctx_render"
    /\ UNCHANGED <<fs, mem0_kind, mem0, dialog, ep_store, cv_col, kb_col,
                   ret, log, ep_calls, ncalls>>
    /\ UNCHANGED conc
    /\ UNCHANGED bot

\* lines 151-183: the text is assembled and returned
CtxReturn ==
    /\ pc = "ctx_render"
    /\ LET r == GetRelevantContext(obs.e, obs.k, obs.c,
                                   DictGet(dialog, obs.user))
       IN  /\ ret' = [op |-> "context", raised |-> r.raised, text |-> r.text]
           /\ obs' = [op |-> "context", user |-> obs.user, ep |-> obs.e.value,
                      kb |-> obs.k.value, cv |-> obs.c.value, tail |-> r.tail,
                      parts |-> r.parts]
    /\ pc' = "ready"
    /\ UNCHANGED <<fs, mem0_kind, mem0, dialog, ep_store, cv_col, kb_col,
                   log, ep_calls, ncalls>>
    /\ UNCHANGED conc
    /\ UNCHANGED bot

\* the steps the program takes by itself
CtxProgram ==
    \/ EpSearchCall
    \/ KbSearchCall
    \/ CvSearchCall
    \/ CtxReturn

NextHang ==
    \/ CtxBegin
    \/ CtxProgram
    \/ EpSearchReturn
    \/ KbSearchReturn
    \/ CvSearchReturn

SpecHang == InitHang /\ [][NextHang]_vars /\ WF_vars(CtxProgram)

(***************************************************************************)
(* Specification SpecConc: add_conversation_memory (lines 121-127) called  *)
(* from several threads for one user id, without a lock.  The interpreter  *)
(* may switch threads between any two statements; setdefault, append, len  *)
(* and the slice are each one step.  The dictionary binds the user id to a *)
(* list object; hist is a reference to an object, and the reassignment of  *)
(* line 127 binds a new object, so that a hist taken earlier goes on       *)
(* pointing at the old one.  The run starts from a full buffer, as left by *)
(* DialogKeep earlier calls; episodic memory is disabled.                  *)
(***************************************************************************)
MaxConcCalls == 3

Threads == {"t1", "t2"}

ConcUser == "u1"

Idle == [pc |-> "idle", hist |-> 0, turn |-> [q |-> "", a |-> ""]]

\* the turns of calls 1..n, in call order
Turns(n) == [i \in 1..n |-> [q |-> Msg(i), a |-> Ans(i)]]

\* self.dialog by value: each bound user's list
View(h, b) == [u \in DOMAIN b |-> h[b[u]]]

InitConc ==
    /\ pc = "ready"
    /\ fs = NoFiles
    /\ mem0_kind = "none"
    /\ mem0 = FALSE
    /\ heap = <<Turns(DialogKeep)>>
    /\ bound = [u \in {ConcUser} |-> 1]
    /\ dialog = View(heap, bound)
    /\ frames = [t \in Threads |-> Idle]
    /\ ep_store = [u \in Users |-> <<>>]
    /\ cv_col = CvIds
    /\ kb_col = <<>>
    /\ ret = [op |-> "init", raised |-> FALSE, text |-> ""]
    /\ obs = [op |-> "threads", completed |-> {}, stale |-> FALSE]
    /\ log = [u \in Users |-> IF u = ConcUser THEN Turns(DialogKeep) ELSE <<>>]
    /\ ep_calls = 0
    /\ ncalls = DialogKeep
    /\ NoBot

\* line 124: hist = self.dialog.setdefault(user_id, [])
ConcSetDefault(t) ==
    /\ frames[t].pc = "idle"
    /\ ncalls < DialogKeep + MaxConcCalls
    /\ LET turn == [q |-> Msg(ncalls + 1), a |-> Ans(ncalls + 1)]
       IN  IF ConcUser \in DOMAIN bound
           THEN /\ frames' = [frames EXCEPT ![t] =
                       [pc |-> "append", hist |-> bound[ConcUser], turn |-> turn]]
                /\ UNCHANGED <<heap, bound, dialog>>
           ELSE /\ heap' = Append(heap, <<>>)
                /\ bound' = [u \in DOMAIN bound \cup {ConcUser} |->
                                IF u = ConcUser THEN Len(heap) + 1 ELSE bound[u]]
                /\ dialog' = View(heap', bound')
                /\ frames' = [frames EXCEPT ![t] =
                       [pc |-> "append", hist |-> Len(heap) + 1, turn |-> turn]]
    /\ ncalls' = ncalls + 1
    /\ UNCHANGED <<pc, fs, mem0_kind, mem0, ep_store, cv_col, kb_col,
                   ret, obs, log, ep_calls>>
    /\ UNCHANGED bot

\* line 125: hist.append({"q": message, "a": response})
ConcAppend(t) ==
    /\ frames[t].pc = "append"
    /\ heap' = [heap EXCEPT ![frames[t].hist] = Append(@, frames[t].turn)]
    /\ dialog' = View(heap', bound)
    /\ log' = [log EXCEPT ![ConcUser] = Append(@, frames[t].turn)]
    /\ frames' = [frames EXCEPT ![t].pc = "check"]
    /\ UNCHANGED <<pc, fs, mem0_kind, mem0, ep_store, cv_col, kb_col,
                   ret, obs, ep_calls, ncalls, bound>>
    /\ UNCHANGED bot

\* the call returns: with mem0 None line 130 skips the episodic part
ConcReturn(t, stale) ==
    /\ frames' = [frames EXCEPT ![t] = Idle]
    /\ obs' = [obs EXCEPT !.completed = @ \cup {frames[t].turn},
                          !.stale = @ \/ stale]
    /\ ret' = [op |-> "add", raised |-> FALSE, text |-> ""]

\* line 126 with the test false: nothing is reassigned
ConcCheck(t) ==
    /\ frames[t].pc = "check"
    /\ IF Len(heap[frames[t].hist]) > DialogLimit
       THEN /\ frames' = [frames EXCEPT ![t].pc = "assign"]
            /\ UNCHANGED <<obs, ret>>
       ELSE ConcReturn(t, FALSE)
    /\ UNCHANGED <<pc, fs, mem0_kind, mem0, dialog, ep_store, cv_col, kb_col,
                   log, ep_calls, ncalls, heap, bound>>
    /\ UNCHANGED bot

\* hist[-15:] without the sign: the oldest turns are kept
SliceNewest_KeepOldest(list) == FirstN(list, DialogKeep)

\* hist[-15:]: a new list object holding the newest turns
SliceNewest(list) == LastN(list, DialogKeep)

\* line 127: self.dialog[user_id] = hist[-15:], then the return
ConcAssign(t) ==
    /\ frames[t].pc = "assign"
    /\ heap' = Append(heap, SliceNewest(heap[frames[t].hist]))
    /\ bound' = [bound EXCEPT ![ConcUser] = Len(heap) + 1]
    /\ dialog' = View(heap', bound')
    /\ ConcReturn(t, frames[t].hist # bound[ConcUser])
    /\ UNCHANGED <<pc, fs, mem0_kind, mem0, ep_store, cv_col, kb_col,
                   log, ep_calls, ncalls>>
    /\ UNCHANGED bot

NextConc ==
    \E t \in Threads :
        \/ ConcSetDefault(t)
        \/ ConcAppend(t)
        \/ ConcCheck(t)
        \/ ConcAssign(t)

SpecConc == InitConc /\ [][NextConc]_vars

(***************************************************************************)
(* Specification SpecTail: a constructed manager with episodic memory      *)
(* disabled and no documents, driven by add_conversation_memory calls with *)
(* short and long texts and by get_relevant_context calls.                 *)
(***************************************************************************)
MaxTurns == 4

\* a text of n characters
RECURSIVE Fill(_)
Fill(n) ==
    IF n <= 0 THEN ""
    ELSE IF n = 1 THEN "x"
    ELSE Fill(n \div 2) \o Fill(n - (n \div 2))

\* s followed by filling up to n characters
Pad(s, n) == s \o Fill(n - Len(s))

\* the texts of call n: short ones; a response of exactly AnswerChars
\* characters; a message and a response of one character more
TurnChoices(n) ==
    { [q |-> Msg(n), a |-> Ans(n)],
      [q |-> Msg(n), a |-> Pad(Ans(n), AnswerChars)],
      [q |-> Pad(Msg(n), AnswerChars + 1), a |-> Pad(Ans(n), AnswerChars + 1)] }

InitTail ==
    /\ pc = "ready"
    /\ mem0_kind = "none"
    /\ mem0 = FALSE
    /\ dialog = <<>>
    /\ ep_store = [u \in Users |-> <<>>]
    /\ fs = NoFiles
    /\ cv_col = CvIds
    /\ kb_col = <<>>
    /\ ret = [op |-> "init", raised |-> FALSE, text |-> ""]
    /\ obs = [op |-> "init"]
    /\ log = [u \in Users |-> <<>>]
    /\ ep_calls = 0
    /\ ncalls = 0
    /\ NoThreads
    /\ NoBot

\* a call of add_conversation_memory (lines 121-143)
TailAdd ==
    /\ pc = "ready"
    /\ ncalls < MaxTurns
    /\ \E u \in Users, turn \in TurnChoices(ncalls + 1) :
          LET m == Mem0Add(ep_store, mem0, u, turn.q, "stored")
          IN  /\ AddConversationMemory(u, turn.q, turn.a, m)
              /\ ep_calls' = ep_calls + m.calls
              /\ ret' = [op |-> "add", raised |-> m.raised, text |-> ""]
              /\ obs' = [op |-> "add", user |-> u, message |-> turn.q,
                         response |-> turn.a, outcome |-> "stored",
                         before |-> Len(DictGet(dialog, u)), calls |-> m.calls]
    /\ ncalls' = ncalls + 1
    /\ UNCHANGED <<pc, fs, mem0_kind, mem0, cv_col, kb_col>>
    /\ UNCHANGED conc
    /\ UNCHANGED bot

\* a call of get_relevant_context (lines 145-183); the CV collection finds
\* one fragment near the query, or its query raises
TailContext ==
    /\ pc = "ready"
    /\ \E u \in Users :
       \E r \in {ContextRun(u, [raise |-> FALSE, memories |-> <<>>],
                             Ranking(kb_col, "kb", 0), co) :
                     co \in {Ranking(cv_col, "cv", 1),
                             [raise |-> TRUE, docs |-> <<>>, dists |-> <<>>]}} :
          /\ ret' = [op |-> "context", raised |-> r.raised, text |-> r.text]
          /\ obs' = [op |-> "context", user |-> u, ep |-> r.ep, kb |-> r.kb,
                     cv |-> r.cv, tail |-> r.tail, parts |-> r.parts,
                     calls |-> r.calls, failed |-> r.failed,
                     asked |-> r.asked]
          /\ ep_calls' = ep_calls + r.calls
          /\ dialog' = DialogAfterGet(dialog, u)
    /\ UNCHANGED <<pc, fs, mem0_kind, mem0, ep_store, cv_col, kb_col, log,
                   ncalls>>
    /\ UNCHANGED conc
    /\ UNCHANGED bot

NextTail ==
    \/ TailAdd
    \/ TailContext

SpecTail == InitTail /\ [][NextTail]_vars

(***************************************************************************)
(* Specification SpecCaps: a constructed manager whose stores hold more    *)
(* than any limit asks for: a document of BigDoc chunks in kb_main, the    *)
(* CV fragments, and up to MaxMem episodic memories of a user, behind      *)
(* either kind of episodic client.                                         *)
(***************************************************************************)
BigDoc == 10
MaxMem == 7

MemTexts(n) == [i \in 1..n |-> "memory " \o ToString(i)]

InitCaps ==
    /\ pc = "ready"
    /\ mem0_kind \in {"platform", "oss"}
    /\ mem0 = TRUE
    /\ dialog = <<>>
    /\ \E n \in {0, KEp, MaxMem} :
          ep_store = [u \in Users |-> IF u = "u1" THEN MemTexts(n) ELSE <<>>]
    /\ fs = [docs |-> <<File("handbook.md", BigDoc)>>,
             pdf |-> [exists |-> FALSE, chunks |-> 0]]
    /\ cv_col = CvIds
    /\ kb_col = KbAfterInit(fs)
    /\ ret = [op |-> "init", raised |-> FALSE, text |-> ""]
    /\ obs = [op |-> "init"]
    /\ log = [u \in Users |-> <<>>]
    /\ ep_calls = 0
    /\ ncalls = 0
    /\ NoThreads
    /\ NoBot

NextCaps == GetContext

SpecCaps == InitCaps /\ [][NextCaps]_vars

(***************************************************************************)
(* Specification SpecScores: _kb_search and _cv_search called on populated *)
(* collections whose best Hits fragments lie at distances around the two   *)
(* thresholds, in any order; the other fragments are far from the query.   *)
(* The initial state draws the collection asked and its ranking.           *)
(***************************************************************************)
Hits == 3

\* distances whose scores are just below, at and just above a threshold
ScoreGrid ==
    {One - t + d : t \in {KbThreshold, CvThreshold}, d \in {0 - 1, 0, 1}}

\* the ranking a collection computes: ds for its first fragments, Far for
\* the others
GridRanking(col, which, ds) ==
    [raise |-> FALSE,
     docs |-> [i \in 1..Len(col) |-> TextOf(which, col[i])],
     dists |-> [i \in 1..Len(col) |-> IF i <= Len(ds) THEN ds[i] ELSE Far]]

InitScores ==
    /\ pc = "ready"
    /\ mem0_kind = "none"
    /\ mem0 = FALSE
    /\ dialog = <<>>
    /\ ep_store = [u \in Users |-> <<>>]
    /\ fs = [docs |-> <<File("handbook.md", Hits + 1)>>,
             pdf |-> [exists |-> FALSE, chunks |-> 0]]
    /\ cv_col = CvIds
    /\ kb_col = KbAfterInit(fs)
    /\ ret = [op |-> "init", raised |-> FALSE, text |-> ""]
    /\ obs \in {[op |-> "ranking", which |-> w, ds |-> d] :
                   w \in {"kb", "cv"}, d \in [1..Hits -> ScoreGrid]}
    /\ log = [u \in Users |-> <<>>]
    /\ ep_calls = 0
    /\ ncalls = 0
    /\ NoThreads
    /\ NoBot

\* a call of _kb_search(query, k_kb) (lines 204-215) or of
\* _cv_search(query, k_cv) (lines 217-231), the collection ranking its
\* fragments as obs says
ScoreSearch ==
    /\ pc = "ready"
    /\ obs.op = "ranking"
    /\ \E which \in {obs.which}, ds \in {obs.ds} :
          LET col == IF which = "kb" THEN kb_col ELSE cv_col
              k == IF which = "kb" THEN KKb ELSE KCv
              out == GridRanking(col, which, ds)
              r == IF which = "kb" THEN KbSearch(col, k, out)
                   ELSE CvSearch(col, k, out)
              answer == Query(out, NResults(col, k))
          IN  /\ ret' = [op |-> "search", raised |-> r.raised, text |-> ""]
              /\ obs' = [op |-> "search", which |-> which,
                         docs |-> answer.docs, dists |-> answer.dists,
                         value |-> r.value]
    /\ UNCHANGED <<pc, fs, mem0_kind, mem0, dialog, ep_store, cv_col, kb_col,
                   log, ep_calls, ncalls>>
    /\ UNCHANGED conc
    /\ UNCHANGED bot

NextScores == ScoreSearch

SpecScores == InitScores /\ [][NextScores]_vars

(***************************************************************************)
(* _chunk_texts (lines 379-398) on the texts themselves, and specification *)
(* SpecChunk: one chunking call, as _maybe_ingest_docs makes it (line      *)
(* 356), on a text drawn by the initial state.                             *)
(***************************************************************************)
ChunkChars == 800
Overlap == 200
MinStep == 100
MinChunk == 50

\* the concatenation of strs[i..j]
RECURSIVE Concat(_, _, _)
Concat(strs, i, j) ==
    IF i > j THEN ""
    ELSE IF i = j THEN strs[i]
    ELSE LET mid == (i + j) \div 2
         IN  Concat(strs, i, mid) \o Concat(strs, mid + 1, j)

\* line 384: " ".join((raw or "").split()): no whitespace at the ends, and
\* one space for every run of whitespace inside
Normalize(raw) ==
    LET t == Strip(raw)
        Ch(i) == SubSeq(t, i, i)
        pieces == [i \in 1..Len(t) |->
                     IF ~IsSpace(Ch(i)) THEN Ch(i)
                     ELSE IF IsSpace(Ch(i - 1)) THEN "" ELSE " "]
    IN  Concat(pieces, 1, Len(t))

\* a slice bound i on a sequence of n items: counted from the end when
\* negative, and kept within 0..n
PyBound(i, n) ==
    LET j == IF i < 0 THEN i + n ELSE i
    IN  IF j < 0 THEN 0 ELSE IF j > n THEN n ELSE j

\* text[a:b]
Slice(text, a, b) ==
    SubSeq(text, PyBound(a, Len(text)) + 1, PyBound(b, Len(text)))

\* the step without the overlap: windows that only touch
ChunkStep_NoOverlap(chunk_chars, overlap) ==
    IF MinStep > chunk_chars THEN MinStep ELSE chunk_chars

\* line 389: step = max(100, chunk_chars - overlap)
ChunkStep(chunk_chars, overlap) ==
    IF MinStep > chunk_chars - overlap THEN MinStep ELSE chunk_chars - overlap

\* the test of line 392 with >= in the place of >
KeepChunk_AtLeast(chunk) == Len(chunk) >= MinChunk

\* line 392: if len(chunk) > 50
KeepChunk(chunk) == Len(chunk) > MinChunk

\* lines 393-395 without idx += 1
EmitChunk_NoCount(acc, chunk, prefix) ==
    [docs |-> Append(acc.docs, chunk),
     ids |-> Append(acc.ids, prefix \o "_" \o ToString(acc.idx)),
     idx |-> acc.idx]

\* lines 393-395: docs.append(chunk); ids.append(f"{prefix}_{idx}"); idx += 1
EmitChunk(acc, chunk, prefix) ==
    [docs |-> Append(acc.docs, chunk),
     ids |-> Append(acc.ids, prefix \o "_" \o ToString(acc.idx)),
     idx |-> acc.idx + 1]

\* lines 390-396: the while loop from start on; acc is docs, ids and idx
RECURSIVE ChunkLoop(_, _, _, _, _, _)
ChunkLoop(text, start, chunk_chars, step, prefix, acc) ==
    IF ~(start < Len(text)) THEN acc
    ELSE LET chunk == Slice(text, start, start + chunk_chars)
         IN  ChunkLoop(text, start + step, chunk_chars, step, prefix,
                       IF KeepChunk(chunk) THEN EmitChunk(acc, chunk, prefix)
                       ELSE acc)

\* lines 383-396: the for loop over texts[i..]
RECURSIVE ChunkEach(_, _, _, _, _, _)
ChunkEach(texts, i, prefix, chunk_chars, overlap, acc) ==
    IF i > Len(texts) THEN acc
    ELSE LET text == Normalize(texts[i])
         IN  ChunkEach(texts, i + 1, prefix, chunk_chars, overlap,
                 IF text = "" THEN acc
                 ELSE ChunkLoop(text, 0, chunk_chars,
                                ChunkStep(chunk_chars, overlap), prefix, acc))

\* lines 379-398: docs, ids = [], []; idx = 1; ...; return docs, ids
ChunkTexts(texts, prefix, chunk_chars, overlap) ==
    LET r == ChunkEach(texts, 1, prefix, chunk_chars, overlap,
                       [docs |-> <<>>, ids |-> <<>>, idx |-> 1])
    IN  [docs |-> r.docs, ids |-> r.ids]

MaxWindows == 2

\* words w1_w2_..., no two places of the text alike
Words(n) == Concat([i \in 1..n |-> "w" \o ToString(i) \o "_"], 1, n)

BaseText == Words(((MaxWindows + 2) * ChunkChars) \div 3)

\* the lengths of the normalised text: whole steps plus what decides the
\* last windows
ChunkLens ==
    {w * (ChunkChars - Overlap) + d :
        w \in 0..MaxWindows,
        d \in {0, 1, MinChunk - 1, MinChunk, MinChunk + 1, MinStep,
               Overlap - 1, Overlap, Overlap + 1, Overlap + MinChunk,
               Overlap + MinChunk + 1}}

\* raw texts that normalise to n characters: as they are, wrapped in
\* whitespace, and with a run of whitespace inside
RawTexts(n) ==
    LET t == SubSeq(BaseText, 1, n)
        h == n \div 2
    IN  {t, "  " \o t \o "\n"}
        \cup (IF n < 3 THEN {}
              ELSE {SubSeq(t, 1, h) \o " \n\t " \o SubSeq(t, h + 2, n)})

InitChunk ==
    /\ pc = "ready"
    /\ mem0_kind = "none"
    /\ mem0 = FALSE
    /\ dialog = <<>>
    /\ ep_store = [u \in Users |-> <<>>]
    /\ fs = NoFiles
    /\ cv_col = CvIds
    /\ kb_col = <<>>
    /\ ret = [op |-> "init", raised |-> FALSE, text |-> ""]
    /\ \E n \in ChunkLens :
          obs \in {[op |-> "text", raw |-> r] : r \in RawTexts(n)}
    /\ log = [u \in Users |-> <<>>]
    /\ ep_calls = 0
    /\ ncalls = 0
    /\ NoThreads
    /\ NoBot

\* self._chunk_texts([text], prefix=...) with the default sizes
ChunkCall ==
    /\ pc = "ready"
    /\ obs.op = "text"
    /\ LET r == ChunkTexts(<<obs.raw>>, "doc", ChunkChars, Overlap)
       IN  obs' = [op |-> "chunk", raw |-> obs.raw,
                   text |-> Normalize(obs.raw), docs |-> r.docs, ids |-> r.ids]
    /\ ret' = [op |-> "chunk", raised |-> FALSE, text |-> ""]
    /\ UNCHANGED <<pc, fs, mem0_kind, mem0, dialog, ep_store, cv_col, kb_col,
                   log, ep_calls, ncalls>>
    /\ UNCHANGED conc
    /\ UNCHANGED bot

NextChunk == ChunkCall

SpecChunk == InitChunk /\ [][NextChunk]_vars

(***************************************************************************)
(* Specification SpecIds: one chunking call on a list of texts, as         *)
(* _index_cv_thoroughly and the ingestion make it, with the list and the   *)
(* prefix drawn by the initial state.                                      *)
(***************************************************************************)
MaxTexts == 2

\* texts of no chunk (empty, whitespace only, short), of two chunks, and of
\* two chunks and a discarded last window
IdTexts ==
    {"", " \n ", SubSeq(BaseText, 1, MinChunk),
     SubSeq(BaseText, 1, ChunkChars - Overlap + MinChunk + 1),
     " " \o SubSeq(BaseText, 1, 2 * (ChunkChars - Overlap) + MinChunk)}

IdPrefixes == {"doc", "CV_PDF"}

InitIds ==
    /\ pc = "ready"
    /\ mem0_kind = "none"
    /\ mem0 = FALSE
    /\ dialog = <<>>
    /\ ep_store = [u \in Users |-> <<>>]
    /\ fs = NoFiles
    /\ cv_col = CvIds
    /\ kb_col = <<>>
    /\ ret = [op |-> "init", raised |-> FALSE, text |-> ""]
    /\ \E n \in 0..MaxTexts :
          obs \in {[op |-> "texts", texts |-> t, prefix |-> p] :
                      t \in [1..n -> IdTexts], p \in IdPrefixes}
    /\ log = [u \in Users |-> <<>>]
    /\ ep_calls = 0
    /\ ncalls = 0
    /\ NoThreads
    /\ NoBot

\* self._chunk_texts(texts, prefix=...) with the default sizes
IdsCall ==
    /\ pc = "ready"
    /\ obs.op = "texts"
    /\ LET r == ChunkTexts(obs.texts, obs.prefix, ChunkChars, Overlap)
       IN  obs' = [op |-> "ids", texts |-> obs.texts, prefix |-> obs.prefix,
                   docs |-> r.docs, ids |-> r.ids]
    /\ ret' = [op |-> "ids", raised |-> FALSE, text |-> ""]
    /\ UNCHANGED <<pc, fs, mem0_kind, mem0, dialog, ep_store, cv_col, kb_col,
                   log, ep_calls, ncalls>>
    /\ UNCHANGED conc
    /\ UNCHANGED bot

NextIds == IdsCall

SpecIds == InitIds /\ [][NextIds]_vars

(***************************************************************************)
(* The preference store (src/utils/user_prefs.py).  The file holds the     *)
(* JSON text of a dictionary from str(user_id) to a record of strings;     *)
(* prefs_file.db is the dictionary json.loads gives back for the text that *)
(* json.dumps wrote.  A record is a function from field names to strings.  *)
(***************************************************************************)
\* line 10
PrefsDefault ==
    [lang |-> "ru-RU", voice |-> "ru-RU-Wavenet-D", style |-> "neutral"]

\* {**b, **a}: the first dictionary wins
Merge_FirstWins(a, b) ==
    [k \in DOMAIN a \cup DOMAIN b |-> IF k \in DOMAIN a THEN a[k] ELSE b[k]]

\* {**a, **b}, and a.update(b) as a value
Merge(a, b) ==
    [k \in DOMAIN a \cup DOMAIN b |-> IF k \in DOMAIN b THEN b[k] ELSE a[k]]

\* d[k] = v as a value
DictPut(d, k, v) ==
    [x \in DOMAIN d \cup {k} |-> IF x = k THEN v ELSE d[x]]

\* lines 12-19: _load creates the file as "{}" when it is absent
Load(file) ==
    IF file.exists THEN [file |-> file, db |-> file.db]
    ELSE [file |-> [exists |-> TRUE, db |-> <<>>], db |-> <<>>]

\* lines 21-24
PrefsGet(file, user_id) ==
    LET l == Load(file)
    IN  [file |-> l.file,
         value |-> Merge(PrefsDefault, DictGet(l.db, ToString(user_id)))]

\* every keyword argument is written, None included
KeepGiven_All(kwargs) == kwargs

\* line 30: {k:v for k,v in kwargs.items() if v is not None}
KeepGiven(kwargs) ==
    [k \in {x \in DOMAIN kwargs : kwargs[x] # None} |-> kwargs[k]]

\* lines 28-31: the record of user_id after the update, and the dictionary
PrefsUpdate(db, user_id, kwargs) ==
    LET cur == Merge(Merge(PrefsDefault, DictGet(db, ToString(user_id))),
                     KeepGiven(kwargs))
    IN  [db |-> DictPut(db, ToString(user_id), cur), value |-> cur]

\* lines 26-33
PrefsSet(file, user_id, kwargs) ==
    LET l == Load(file)
        u == PrefsUpdate(l.db, user_id, kwargs)
    IN  [file |-> [exists |-> TRUE, db |-> u.db], value |-> u.value]

(***************************************************************************)
(* Specification SpecPrefs: callers of get and set, one call at a time.    *)
(***************************************************************************)
UserIds == {1, 2}

Fields == {"lang", "voice", "style"}

\* what a caller may pass for a field
Given(f) ==
    IF f = "lang" THEN {None, "uz-UZ"}
    ELSE IF f = "voice" THEN {None, "en-US-Wavenet-F"}
    ELSE {None, "calm"}

\* the keyword arguments of one call: any fields, each None or a value
KwargsChoices ==
    UNION {{kw \in [fs0 -> UNION {Given(f) : f \in Fields}] :
               \A f \in fs0 : kw[f] \in Given(f)} : fs0 \in SUBSET Fields}

InitPrefs ==
    /\ pc = "ready"
    /\ mem0_kind = "none"
    /\ mem0 = FALSE
    /\ dialog = <<>>
    /\ ep_store = [u \in Users |-> <<>>]
    /\ fs = NoFiles
    /\ cv_col = CvIds
    /\ kb_col = <<>>
    /\ ret = [op |-> "init", raised |-> FALSE, text |-> ""]
    /\ obs = [op |-> "init"]
    /\ log = [u \in Users |-> <<>>]
    /\ ep_calls = 0
    /\ ncalls = 0
    /\ NoThreads
    /\ NoBot

\* prefs_get(user_id)
PrefsGetCall ==
    /\ \E u \in UserIds :
          LET r == PrefsGet(prefs_file, u)
          IN  /\ prefs_file' = r.file
              /\ obs' = [op |-> "get", user |-> u, before |-> prefs_file,
                         value |-> r.value]
    /\ ret' = [op |-> "get", raised |-> FALSE, text |-> ""]
    /\ UNCHANGED <<pc, fs, mem0_kind, mem0, dialog, ep_store, cv_col, kb_col,
                   log, ep_calls, ncalls, secret, lock, pth>>
    /\ UNCHANGED conc

\* prefs_set(user_id, **kwargs)
PrefsSetCall ==
    /\ \E u \in UserIds, kw \in KwargsChoices :
          LET r == PrefsSet(prefs_file, u, kw)
          IN  /\ prefs_file' = r.file
              /\ obs' = [op |-> "set", user |-> u, kwargs |-> kw,
                         before |-> prefs_file, value |-> r.value]
    /\ ret' = [op |-> "set", raised |-> FALSE, text |-> ""]
    /\ UNCHANGED <<pc, fs, mem0_kind, mem0, dialog, ep_store, cv_col, kb_col,
                   log, ep_calls, ncalls, secret, lock, pth>>
    /\ UNCHANGED conc

NextPrefs == PrefsGetCall \/ PrefsSetCall

SpecPrefs == InitPrefs /\ [][NextPrefs]_vars

(***************************************************************************)
(* The two front ends: the polling bot (src/telegram_bot.py) and the       *)
(* webhook endpoint (src/api/telegram-webhook.py).  A handler's result     *)
(* carries the preference file it leaves and what it did on the way: the   *)
(* number of prefs_set calls (writes), of generation calls (gen) and of    *)
(* outbound Telegram API calls (sent).                                     *)
(***************************************************************************)
\* s.startswith(p)
StartsWith(s, p) == Len(s) >= Len(p) /\ SubSeq(s, 1, Len(p)) = p

\* the place of the first ":" of s from i on, Len(s) + 1 when there is none
RECURSIVE FirstColon(_, _)
FirstColon(s, i) ==
    IF i > Len(s) \/ SubSeq(s, i, i) = ":" THEN i ELSE FirstColon(s, i + 1)

\* data.split(":", 1)[1], for data that holds a colon
AfterColon(data) == SubSeq(data, FirstColon(data, 1) + 1, Len(data))

\* src/telegram_bot.py line 25
SupportedLangs == {"ru-RU", "uz-UZ", "en-US"}

\* src/i18n/tts_support.py lines 7-10
VoicesByLang ==
    [l \in {"ru-RU", "en-US"} |->
        IF l = "ru-RU" THEN <<"ru-RU-Wavenet-D", "ru-RU-Wavenet-C">>
        ELSE <<"en-US-Wavenet-D", "en-US-Wavenet-F">>]

\* src/telegram_bot.py line 265
Styles == {"neutral", "calm", "cheerful"}

Done(file, writes, gen, sent) ==
    [file |-> file, writes |-> writes, gen |-> gen, sent |-> sent]

\* button_callback (src/telegram_bot.py lines 231-324) for the preference
\* buttons and the menu button
ButtonCallback(file, user_id, data) ==
    IF StartsWith(data, "set_lang:")
    THEN LET lang == AfterColon(data)
         IN  IF lang \in SupportedLangs
             THEN LET p == PrefsSet(file, user_id, [lang |-> lang])
                  IN  IF lang \notin DOMAIN VoicesByLang
                      THEN Done(PrefsSet(p.file, user_id, [voice |-> None]).file,
                                2, 0, 1)
                      ELSE Done(p.file, 1, 0, 1)
             ELSE Done(file, 0, 0, 1)
    ELSE IF StartsWith(data, "set_voice:")
    THEN Done(PrefsSet(file, user_id, [voice |-> AfterColon(data)]).file, 1, 0, 1)
    ELSE IF StartsWith(data, "set_style:")
    THEN LET style == AfterColon(data)
         IN  IF style \notin Styles THEN Done(file, 0, 0, 1)
             ELSE Done(PrefsSet(file, user_id, [style |-> style]).file, 1, 0, 1)
    ELSE IF data = "menu" THEN Done(file, 0, 0, 1)
    ELSE Done(file, 0, 0, 0)

\* _transcribe_sync (src/speech.py lines 127-145): the language_code of the
\* RecognitionConfig; io is what the file system does to prefs_get
TranscribeSync(file, language_code, has_user, user_id, io) ==
    IF ~has_user THEN language_code
    ELSE IF io = "raise"
    THEN (IF language_code \in {None, ""} THEN "ru-RU" ELSE language_code)
    ELSE LET p == PrefsGet(file, user_id).value
         IN  IF p["lang"] \in {None, ""} THEN "ru-RU" ELSE p["lang"]

\* handle_voice (src/telegram_bot.py lines 367-372) up to the recognition
\* request
HandleVoice(file, user_id, io) ==
    LET p_stt == PrefsGet(file, user_id)
        lang == IF p_stt.value["lang"] \in {None, ""} THEN "ru-RU"
                ELSE p_stt.value["lang"]
        stt_lang == IF lang = "uz-UZ" THEN "ru-RU" ELSE lang
    IN  [file |-> p_stt.file, stt_lang |-> stt_lang,
         request_lang |-> TranscribeSync(p_stt.file, stt_lang, TRUE, user_id, io)]

\* the check that lets a request without the header through
CheckSecretHeader_MissingOk(expected, got) ==
    IF expected \in {None, ""} THEN FALSE
    ELSE got \notin {None, ""} /\ got # expected

\* _check_secret_header (src/api/telegram-webhook.py lines 83-89): TRUE when
\* it raises HTTPException(401)
CheckSecretHeader(expected, got) ==
    IF expected \in {None, ""} THEN FALSE
    ELSE got \in {None, ""} \/ got # expected

\* telegram_webhook from line 111 on: the update is handled
HandleUpdate(file, update) ==
    IF update.kind = "callback"
    THEN IF update.chat = 0 THEN Done(file, 0, 0, 0)
         ELSE IF StartsWith(update.data, "set_lang:")
         THEN Done(PrefsSet(file, update.user,
                            [lang |-> AfterColon(update.data)]).file, 1, 0, 1)
         ELSE IF StartsWith(update.data, "set_voice:")
         THEN Done(PrefsSet(file, update.user,
                            [voice |-> AfterColon(update.data)]).file, 1, 0, 1)
         ELSE IF StartsWith(update.data, "set_style:")
         THEN Done(PrefsSet(file, update.user,
                            [style |-> AfterColon(update.data)]).file, 1, 0, 1)
         ELSE Done(file, 0, 0, 1)
    ELSE IF update.kind = "text" THEN Done(file, 0, 1, 2)
    ELSE IF update.kind = "voice" THEN Done(file, 0, 0, 1)
    ELSE Done(file, 0, 0, 0)

\* telegram_webhook (lines 108-168): the response status and what was done
TelegramWebhook(file, expected, request) ==
    IF CheckSecretHeader(expected, request.header)
    THEN [status |-> 401, done |-> Done(file, 0, 0, 0)]
    ELSE [status |-> 200, done |-> HandleUpdate(file, request.update)]

PathRoot == "/"
PathFull == "/api/telegram-webhook"

\* the POST routes (lines 108, 194-196, 205-207)
Post(file, expected, request) ==
    IF request.path = PathRoot THEN TelegramWebhook(file, expected, request)
    ELSE IF request.path = PathFull
    THEN TelegramWebhook(file, expected, request)
    ELSE TelegramWebhook(file, expected, request)

\* the callback data the buttons and a hand-made update carry
CallbackData ==
    {"set_lang:uz-UZ", "set_voice:ru-RU-Wavenet-C", "set_style:calm",
     "set_style:loud", "menu"}

Updates(ids) ==
    {[kind |-> "callback", user |-> u, chat |-> 7, data |-> d] :
        u \in ids, d \in CallbackData}
    \cup {[kind |-> k, user |-> u, chat |-> 7, data |-> ""] :
             k \in {"text", "voice", "unknown"}, u \in ids}
    \cup {[kind |-> "callback", user |-> u, chat |-> 0, data |-> "set_style:calm"] :
             u \in ids}

InitBot ==
    /\ pc = "ready"
    /\ mem0_kind = "none"
    /\ mem0 = FALSE
    /\ dialog = <<>>
    /\ ep_store = [u \in Users |-> <<>>]
    /\ fs = NoFiles
    /\ cv_col = CvIds
    /\ kb_col = <<>>
    /\ ret = [op |-> "init", raised |-> FALSE, text |-> ""]
    /\ obs = [op |-> "init"]
    /\ log = [u \in Users |-> <<>>]
    /\ ep_calls = 0
    /\ ncalls = 0
    /\ NoThreads
    /\ NoBot

\* a button press reaches the polling bot
ButtonCallbackCall ==
    /\ \E u \in UserIds, d \in CallbackData :
          LET r == ButtonCallback(prefs_file, u, d)
          IN  /\ prefs_file' = r.file
              /\ obs' = [op |-> "callback", channel |-> "polling", user |-> u,
                         data |-> d, before |-> prefs_file, status |-> 200,
                         writes |-> r.writes, gen |-> r.gen, sent |-> r.sent]
    /\ ret' = [op |-> "callback", raised |-> FALSE, text |-> ""]
    /\ UNCHANGED <<pc, fs, mem0_kind, mem0, dialog, ep_store, cv_col, kb_col,
                   log, ep_calls, ncalls, secret, lock, pth>>
    /\ UNCHANGED conc

\* a voice message reaches the polling bot
HandleVoiceCall ==
    /\ \E u \in UserIds, io \in CallOutcomes :
          LET r == HandleVoice(prefs_file, u, io)
          IN  /\ prefs_file' = r.file
              /\ obs' = [op |-> "voice", channel |-> "polling", user |-> u,
                         before |-> prefs_file, io |-> io,
                         stt_lang |-> r.stt_lang,
                         request_lang |-> r.request_lang]
    /\ ret' = [op |-> "voice", raised |-> FALSE, text |-> ""]
    /\ UNCHANGED <<pc, fs, mem0_kind, mem0, dialog, ep_store, cv_col, kb_col,
                   log, ep_calls, ncalls, secret, lock, pth>>
    /\ UNCHANGED conc

\* a POST request reaches the webhook endpoint
WebhookPost(paths, headers, ids) ==
    /\ \E p \in paths, h \in headers, up \in Updates(ids) :
          LET request == [path |-> p, header |-> h, update |-> up]
              r == Post(prefs_file, secret, request)
          IN  /\ prefs_file' = r.done.file
              /\ obs' = [op |-> "callback", channel |-> "webhook",
                         user |-> up.user, data |-> up.data,
                         before |-> prefs_file, status |-> r.status,
                         writes |-> r.done.writes, gen |-> r.done.gen,
                         sent |-> r.done.sent, request |-> request]
    /\ ret' = [op |-> "webhook", raised |-> FALSE, text |-> ""]
    /\ UNCHANGED <<pc, fs, mem0_kind, mem0, dialog, ep_store, cv_col, kb_col,
                   log, ep_calls, ncalls, secret, lock, pth>>
    /\ UNCHANGED conc

\* both front ends over one preference file, no webhook secret configured
NextBot ==
    \/ ButtonCallbackCall
    \/ HandleVoiceCall
    \/ WebhookPost({PathRoot}, {None}, UserIds)

SpecBot == InitBot /\ [][NextBot]_vars

(***************************************************************************)
(* Specification SpecWebhook: POST requests to the webhook endpoint, on    *)
(* every route, with and without a configured secret.                      *)
(***************************************************************************)
\* os.getenv("TELEGRAM_WEBHOOK_SECRET"): unset, empty, or a secret
SecretChoices == {None, "", "s3cret"}

\* the x-telegram-bot-api-secret-token header: absent, empty, right, wrong
HeaderChoices == {None, "", "s3cret", "wrong"}

PathChoices == {PathRoot, PathFull, "/hooks/telegram"}

InitWebhook ==
    /\ pc = "ready"
    /\ mem0_kind = "none"
    /\ mem0 = FALSE
    /\ dialog = <<>>
    /\ ep_store = [u \in Users |-> <<>>]
    /\ fs = NoFiles
    /\ cv_col = CvIds
    /\ kb_col = <<>>
    /\ ret = [op |-> "init", raised |-> FALSE, text |-> ""]
    /\ obs = [op |-> "init"]
    /\ log = [u \in Users |-> <<>>]
    /\ ep_calls = 0
    /\ ncalls = 0
    /\ NoThreads
    /\ prefs_file = [exists |-> FALSE, db |-> <<>>]
    /\ secret \in SecretChoices
    /\ lock = "free"
    /\ pth = <<>>

NextWebhook == WebhookPost(PathChoices, HeaderChoices, {1})

SpecWebhook == InitWebhook /\ [][NextWebhook]_vars

(***************************************************************************)
(* Specification SpecLock: threads of one process call set                 *)
(* (src/utils/user_prefs.py lines 26-33) concurrently; every statement of  *)
(* the with block is a step of its own.                                    *)
(***************************************************************************)
MaxLockCalls == 3

\* the calls the threads make
LockCalls ==
    {[user |-> 1, kwargs |-> [lang |-> "uz-UZ"]],
     [user |-> 2, kwargs |-> [style |-> "calm"]],
     [user |-> 1, kwargs |-> [voice |-> "ru-RU-Wavenet-C"]]}

PIdle == [pc |-> "idle", user |-> 0, kwargs |-> <<>>, db |-> <<>>]

InitLock ==
    /\ pc = "ready"
    /\ mem0_kind = "none"
    /\ mem0 = FALSE
    /\ dialog = <<>>
    /\ ep_store = [u \in Users |-> <<>>]
    /\ fs = NoFiles
    /\ cv_col = CvIds
    /\ kb_col = <<>>
    /\ ret = [op |-> "init", raised |-> FALSE, text |-> ""]
    /\ obs = [op |-> "locked", calls |-> <<>>]
    /\ log = [u \in Users |-> <<>>]
    /\ ep_calls = 0
    /\ ncalls = 0
    /\ NoThreads
    /\ prefs_file = [exists |-> FALSE, db |-> <<>>]
    /\ secret = None
    /\ lock = "free"
    /\ pth = [t \in Threads |-> PIdle]

\* a lock that never makes a thread wait
CanAcquire_Always(l) == TRUE

\* threading.Lock: acquire goes through when no thread holds the lock
CanAcquire(l) == l = "free"

\* line 27: with _LOCK, entered by thread t for one call of set
SetAcquire(t) ==
    /\ pth[t].pc = "idle"
    /\ ncalls < MaxLockCalls
    /\ CanAcquire(lock)
    /\ lock' = t
    /\ \E c \in LockCalls :
          /\ pth' = [pth EXCEPT ![t] = [pc |-> "load", user |-> c.user,
                                        kwargs |-> c.kwargs, db |-> <<>>]]
          /\ obs' = [obs EXCEPT !.calls = Append(@, [thread |-> t,
                                    user |-> c.user, kwargs |-> c.kwargs])]
    /\ ncalls' = ncalls + 1
    /\ UNCHANGED <<pc, fs, mem0_kind, mem0, dialog, ep_store, cv_col, kb_col,
                   ret, log, ep_calls, prefs_file, secret>>
    /\ UNCHANGED conc

\* line 28: db = _load()
SetLoad(t) ==
    /\ pth[t].pc = "load"
    /\ LET l == Load(prefs_file)
       IN  /\ prefs_file' = l.file
           /\ pth' = [pth EXCEPT ![t].pc = "update", ![t].db = l.db]
    /\ UNCHANGED <<pc, fs, mem0_kind, mem0, dialog, ep_store, cv_col, kb_col,
                   ret, obs, log, ep_calls, ncalls, secret, lock>>
    /\ UNCHANGED conc

\* lines 29-31: cur is computed and put into the thread's db
SetUpdate(t) ==
    /\ pth[t].pc = "update"
    /\ pth' = [pth EXCEPT ![t].pc = "write",
                          ![t].db = PrefsUpdate(pth[t].db, pth[t].user,
                                                pth[t].kwargs).db]
    /\ UNCHANGED <<pc, fs, mem0_kind, mem0, dialog, ep_store, cv_col, kb_col,
                   ret, obs, log, ep_calls, ncalls, prefs_file, secret, lock>>
    /\ UNCHANGED conc

\* line 32: _PATH.write_text(json.dumps(db, ...))
SetWrite(t) ==
    /\ pth[t].pc = "write"
    /\ prefs_file' = [exists |-> TRUE, db |-> pth[t].db]
    /\ pth' = [pth EXCEPT ![t].pc = "release"]
    /\ UNCHANGED <<pc, fs, mem0_kind, mem0, dialog, ep_store, cv_col, kb_col,
                   ret, obs, log, ep_calls, ncalls, secret, lock>>
    /\ UNCHANGED conc

\* line 33: return cur leaves the with block
SetRelease(t) ==
    /\ pth[t].pc = "release"
    /\ lock' = "free"
    /\ pth' = [pth EXCEPT ![t] = PIdle]
    /\ ret' = [op |-> "set", raised |-> FALSE, text |-> ""]
    /\ UNCHANGED <<pc, fs, mem0_kind, mem0, dialog, ep_store, cv_col, kb_col,
                   obs, log, ep_calls, ncalls, prefs_file, secret>>
    /\ UNCHANGED conc

NextLock ==
    \E t \in Threads :
        \/ SetAcquire(t)
        \/ SetLoad(t)
        \/ SetUpdate(t)
        \/ SetWrite(t)
        \/ SetRelease(t)

SpecLock == InitLock /\ [][NextLock]_vars

(***************************************************************************)
(* Specification SpecLoop: the while loop of _chunk_texts (lines 388-396)  *)
(* one iteration at a time, for a text and a pair of parameters drawn by   *)
(* the initial state.  obs holds the loop's locals.  The loop is           *)
(* sequential code of a running call: it takes its next step whenever it   *)
(* has one.                                                                *)
(***************************************************************************)
MaxLoopText == 250

LoopLens == {0, 1, MinStep - 1, MinStep, MinStep + 1, MaxLoopText}

\* chunk sizes and overlaps: the defaults, overlap >= chunk size, zero and
\* negative values
LoopSizes == {0 - 50, 0, 1, 60, MinStep, 150, ChunkChars}
LoopOverlaps == {0 - 50, 0, 60, MinStep, 150, Overlap, 900}

InitLoop ==
    /\ pc = "ready"
    /\ mem0_kind = "none"
    /\ mem0 = FALSE
    /\ dialog = <<>>
    /\ ep_store = [u \in Users |-> <<>>]
    /\ fs = NoFiles
    /\ cv_col = CvIds
    /\ kb_col = <<>>
    /\ ret = [op |-> "init", raised |-> FALSE, text |-> ""]
    /\ \E n \in LoopLens, c \in LoopSizes, o \in LoopOverlaps :
          obs = [op |-> "loop", text |-> SubSeq(BaseText, 1, n),
                 chunk_chars |-> c, overlap |-> o,
                 start |-> 0, step |-> ChunkStep(c, o), chunk |-> ""]
    /\ log = [u \in Users |-> <<>>]
    /\ ep_calls = 0
    /\ ncalls = 0
    /\ NoThreads
    /\ NoBot

\* the window start after an iteration that does not move it
Advance_Stay(start, step) == start

\* line 396: start += step
Advance(start, step) == start + step

\* lines 390-396: one iteration, the test of line 390 true
LoopIter ==
    /\ obs.op = "loop"
    /\ obs.start < Len(obs.text)
    /\ obs' = [obs EXCEPT
                 !.chunk = Slice(obs.text, obs.start, obs.start + obs.chunk_chars),
                 !.start = Advance(obs.start, obs.step)]
    /\ UNCHANGED <<pc, fs, mem0_kind, mem0, dialog, ep_store, cv_col, kb_col,
                   ret, log, ep_calls, ncalls>>
    /\ UNCHANGED conc
    /\ UNCHANGED bot

\* line 390 with the test false: the loop is left
LoopExit ==
    /\ obs.op = "loop"
    /\ ~(obs.start < Len(obs.text))
    /\ obs' = [obs EXCEPT !.op = "done"]
    /\ ret' = [op |-> "chunk", raised |-> FALSE, text |-> ""]
    /\ UNCHANGED <<pc, fs, mem0_kind, mem0, dialog, ep_store, cv_col, kb_col,
                   log, ep_calls, ncalls>>
    /\ UNCHANGED conc
    /\ UNCHANGED bot

NextLoop == LoopIter \/ LoopExit

SpecLoop == InitLoop /\ [][NextLoop]_vars /\ WF_vars(NextLoop)

(***************************************************************************)
(* Specification SpecDialog: a constructed manager with episodic memory    *)
(* disabled, driven by a long run of add_conversation_memory calls.        *)
(***************************************************************************)
InitDialog ==
    /\ pc = "ready"
    /\ mem0_kind = "none"
    /\ mem0 = FALSE
    /\ dialog = <<>>
    /\ ep_store = [u \in Users |-> <<>>]
    /\ fs = NoFiles
    /\ cv_col = CvIds
    /\ kb_col = <<>>
    /\ ret = [op |-> "init", raised |-> FALSE, text |-> ""]
    /\ obs = [op |-> "init"]
    /\ log = [u \in Users |-> <<>>]
    /\ ep_calls = 0
    /\ ncalls = 0
    /\ NoThreads
    /\ NoBot

DialogAdd ==
    \E u \in Users :
        /\ pc = "ready"
        /\ ncalls < MaxAdds
        /\ LET m == Mem0Add(ep_store, mem0, u, Msg(ncalls + 1), "stored")
           IN  /\ AddConversationMemory(u, Msg(ncalls + 1), Ans(ncalls + 1), m)
               /\ ep_calls' = ep_calls + m.calls
               /\ ret' = [op |-> "add", raised |-> m.raised, text |-> ""]
        /\ ncalls' = ncalls + 1
        /\ obs' = [op |-> "add", user |-> u]
        /\ UNCHANGED <<pc, fs, mem0_kind, mem0, cv_col, kb_col>>
        /\ UNCHANGED conc
    /\ UNCHANGED bot

NextDialog == DialogAdd

SpecDialog == InitDialog /\ [][NextDialog]_vars

(***************************************************************************)
(* C1: after any sequence of add_conversation_memory calls the short-term  *)
(* history of each user is exactly the last min(n, 15) turns appended for  *)
(* that user, in insertion order, and never holds more than 15 turns.      *)
(***************************************************************************)
Min(a, b) == IF a < b THEN a ELSE b

C1_FifoCap ==
    \A u \in Users :
        LET n == Len(log[u])
            h == DictGet(dialog, u)
        IN  /\ Len(h) = Min(n, 15)
            /\ Len(h) <= 15
            /\ \A i \in 1..Len(h) : h[i] = log[u][n - Len(h) + i]
            /\ (u \in DOMAIN dialog) <=> (n > 0)

C1_Witness ==
    \E u \in Users : Len(log[u]) > 15 /\ Len(DictGet(dialog, u)) = 15

(***************************************************************************)
(* C2: get_relevant_context returns exactly the fixed sentinel string if   *)
(* and only if the CV search, the KB search, the episodic search and the   *)
(* dialogue tail of that user are all empty, and it never returns the      *)
(* empty string.                                                           *)
(***************************************************************************)
C2_Sentinel ==
    obs.op = "context" =>
        /\ ~ret.raised
        /\ ret.text # ""
        /\ (ret.text = Sentinel) <=>
               /\ obs.cv = <<>>
               /\ obs.kb = <<>>
               /\ obs.ep = <<>>
               /\ DictGet(dialog, obs.user) = <<>>

C2_Witness ==
    /\ obs.op = "context"
    /\ ret.text = Sentinel
    /\ Count(cv_col) > 0

(***************************************************************************)
(* C3: in the text get_relevant_context returns, the section headers stand *)
(* in the order CV, KB documents, episodic history, recent messages, and   *)
(* the header of a section is present if and only if that source returned  *)
(* a non-empty list.  The text is its lines joined by newlines; a header   *)
(* is present when it is one of them.                                      *)
(***************************************************************************)
HeaderAt(parts, h) == {i \in 1..Len(parts) : parts[i] = h}

Before(parts, h1, h2) ==
    \A i \in HeaderAt(parts, h1), j \in HeaderAt(parts, h2) : i < j

C3_SectionOrder ==
    obs.op = "context" =>
        LET p == obs.parts
        IN  /\ ret.text = IF p = <<>> THEN Sentinel ELSE Join(p, "\n")
            /\ (HeaderAt(p, HeaderCv) # {}) <=> (obs.cv # <<>>)
            /\ (HeaderAt(p, HeaderKb) # {}) <=> (obs.kb # <<>>)
            /\ (HeaderAt(p, HeaderEp) # {}) <=> (obs.ep # <<>>)
            /\ (HeaderAt(p, HeaderTail) # {})
                   <=> (DictGet(dialog, obs.user) # <<>>)
            /\ \A h \in {HeaderCv, HeaderKb, HeaderEp, HeaderTail} :
                   Cardinality(HeaderAt(p, h)) <= 1
            /\ Before(p, HeaderCv, HeaderKb)
            /\ Before(p, HeaderCv, HeaderEp)
            /\ Before(p, HeaderCv, HeaderTail)
            /\ Before(p, HeaderKb, HeaderEp)
            /\ Before(p, HeaderKb, HeaderTail)
            /\ Before(p, HeaderEp, HeaderTail)

C3_Witness ==
    /\ obs.op = "context"
    /\ \A h \in {HeaderCv, HeaderKb, HeaderEp, HeaderTail} :
           HeaderAt(obs.parts, h) # {}

(***************************************************************************)
(* C4: get_relevant_context never raises: whichever of the episodic, KB    *)
(* and CV backend calls fail, each failed source counts as empty and the   *)
(* call returns the context built from the remaining sources.              *)
(***************************************************************************)
C4_NeverRaises ==
    obs.op = "context" =>
        /\ ~ret.raised
        /\ ("ep" \in obs.failed) => (obs.ep = <<>>)
        /\ ("kb" \in obs.failed) => (obs.kb = <<>>)
        /\ ("cv" \in obs.failed) => (obs.cv = <<>>)
        /\ ret.text =
               Context(Parts(IF "ep" \in obs.failed THEN <<>> ELSE obs.ep,
                             IF "kb" \in obs.failed THEN <<>> ELSE obs.kb,
                             IF "cv" \in obs.failed THEN <<>> ELSE obs.cv,
                             TailOf(DictGet(dialog, obs.user))))

C4_Witness ==
    /\ obs.op = "context"
    /\ obs.failed = {"ep", "kb"}
    /\ obs.cv # <<>>
    /\ ~ret.raised

(***************************************************************************)
(* C5: with episodic memory disabled (kind none, no client) every          *)
(* add_conversation_memory and every get_relevant_context call completes   *)
(* without error and without a call on an episodic backend, the turn is    *)
(* still recorded in the short-term buffer, and the assembled context has  *)
(* no episodic section header.                                             *)
(***************************************************************************)
LastTurn(u) ==
    LET h == DictGet(dialog, u) IN h[Len(h)]

C5_DegradedMode ==
    (~mem0 /\ obs.op \in {"add", "context"}) =>
        /\ mem0_kind = "none"
        /\ ~ret.raised
        /\ obs.calls = 0
        /\ (obs.op = "add") =>
               /\ Len(DictGet(dialog, obs.user)) = Min(obs.before + 1, DialogKeep)
               /\ LastTurn(obs.user) = [q |-> obs.message, a |-> obs.response]
        /\ (obs.op = "context") =>
               /\ HeaderAt(obs.parts, HeaderEp) = {}
               /\ obs.ep = <<>>

C5_Witness ==
    /\ ~mem0
    /\ obs.op = "context"
    /\ DictGet(dialog, obs.user) # <<>>
    /\ ep_calls = 0

(***************************************************************************)
(* C6: _init_mem0 never raises and follows the three tiers in order: the   *)
(* platform backend is tried first, and only if a platform credential is   *)
(* configured; the OSS backend is tried only if the platform tier was not  *)
(* selected and a generation-model credential is configured; otherwise     *)
(* the result is kind none with no client.  The kind is none exactly when  *)
(* the client is absent.                                                   *)
(***************************************************************************)
Tried(t) == \E i \in 1..Len(obs.tried) : obs.tried[i] = t

C6_InitMem0 ==
    /\ (mem0_kind = "none") <=> ~mem0
    /\ obs.op = "init_mem0" =>
        LET e == obs.env
        IN  /\ ~ret.raised
            /\ obs.tried \in {<<>>, <<"platform">>, <<"oss">>, <<"platform", "oss">>}
            /\ Tried("platform") <=> (e.lib /\ e.api_key)
            /\ Tried("oss") <=>
                   (e.lib /\ mem0_kind # "platform" /\ e.gemini_key)
            /\ (mem0_kind = "platform") <=> (Tried("platform") /\ e.platform_ok)
            /\ (mem0_kind = "oss") <=> (Tried("oss") /\ e.oss_ok)
            /\ mem0_kind \in {"platform", "oss", "none"}

C6_Witness ==
    /\ obs.op = "init_mem0"
    /\ obs.tried = <<"platform", "oss">>
    /\ mem0_kind = "none"
    /\ ~mem0

(***************************************************************************)
(* C7: CV indexing is idempotent: run against a CV collection that holds   *)
(* at least one fragment, _index_cv_thoroughly adds nothing and leaves the *)
(* collection as it is, so however often it runs from an empty store the   *)
(* collection holds the fragments of one run: the same count, the same     *)
(* ids, none twice.                                                        *)
(***************************************************************************)
C7_IndexIdempotent ==
    /\ [][(pc = "index_cv" /\ Count(cv_col) > 0) => (cv_col' = cv_col)]_vars
    /\ [](Count(cv_col) > 0 => cv_col = CvIds)

C7_Witness ==
    /\ obs.op = "index_cv"
    /\ obs.before > 0
    /\ ~ret.raised
    /\ cv_col = CvIds

(***************************************************************************)
(* C8: every generate_response call records exactly one dialogue turn for  *)
(* that user, whose response text is the text returned to the caller; when *)
(* the generation backend raises or returns empty text, the text returned  *)
(* is a fixed fallback string and that fallback is what is recorded.       *)
(***************************************************************************)
C8_GenerateRecords ==
    obs.op = "generate" =>
        /\ ~ret.raised
        /\ Len(DictGet(dialog, obs.user)) = Min(obs.before + 1, DialogKeep)
        /\ LastTurn(obs.user) = [q |-> obs.message, a |-> ret.text]
        /\ obs.gen.raise => ret.text = FallbackError
        /\ (~obs.gen.raise /\ obs.gen.text \in {"", " \n"})
               => ret.text = FallbackEmpty
        /\ ret.text # ""

C8_Witness ==
    /\ obs.op = "generate"
    /\ obs.gen.raise
    /\ LastTurn(obs.user).a = FallbackError

(***************************************************************************)
(* C9: a failure of the episodic backend at run time never propagates: if  *)
(* its add raises, add_conversation_memory still returns normally with the *)
(* turn kept in the short-term buffer; if its search raises, the episodic  *)
(* result is the empty list.                                               *)
(***************************************************************************)
C9_EpisodicFailure ==
    /\ (obs.op = "add" /\ mem0 /\ obs.outcome = "raise") =>
           /\ ~ret.raised
           /\ obs.calls = 1
           /\ Len(DictGet(dialog, obs.user)) = Min(obs.before + 1, DialogKeep)
           /\ LastTurn(obs.user) = [q |-> obs.message, a |-> obs.response]
    /\ (obs.op = "context" /\ "ep" \in obs.failed) =>
           /\ ~ret.raised
           /\ obs.calls = 1
           /\ obs.ep = <<>>

C9_Witness ==
    /\ obs.op = "add"
    /\ mem0
    /\ obs.outcome = "raise"
    /\ DictGet(dialog, obs.user) # <<>>

(***************************************************************************)
(* C10: context assembly does not hang: a get_relevant_context call that   *)
(* has been entered eventually returns, also when an episodic or           *)
(* vector-store backend call never returns (the source then counts as      *)
(* empty after a fixed per-sub-search timeout).                            *)
(***************************************************************************)
C10_NoHang ==
    (pc # "ready") ~> (pc = "ready")

(***************************************************************************)
(* C11: document ingestion is best-effort: when the vector store rejects   *)
(* an add during ingestion of the docs folder or of the single named       *)
(* document, the failure is absorbed and construction of the memory        *)
(* manager continues; it does not abort.                                   *)
(***************************************************************************)
C11_IngestBestEffort ==
    obs.op \in {"ingest_docs", "ingest_pdf"} =>
        /\ ~ret.raised
        /\ pc # "crashed"

(***************************************************************************)
(* C12: fragment ids are unique within a collection: over one startup (CV  *)
(* indexing, docs-folder ingestion, single-document ingestion), for any    *)
(* files in the docs folder, no two fragments submitted to the same        *)
(* collection carry the same id.                                           *)
(***************************************************************************)
NoDup(ids) ==
    \A i, j \in 1..Len(ids) : ids[i] = ids[j] => i = j

C12_UniqueIds ==
    /\ NoDup(cv_col)
    /\ obs.op \in {"ingest_docs", "ingest_pdf"} => NoDup(obs.submitted)

(***************************************************************************)
(* C13: the dialogue buffer is not safe under unsynchronized concurrent    *)
(* add_conversation_memory calls for one user id: there is an interleaving *)
(* (between the append, the length check and the truncating reassignment)  *)
(* after which the turn of a completed call is missing from the user's     *)
(* history although fewer than 15 turns were appended after it.  Checked   *)
(* as: such a loss is reachable (the witness), and it happens only when a  *)
(* call reassigns from a list object that another call has replaced in the *)
(* dictionary since this call took its reference.                          *)
(***************************************************************************)
\* the number of turns appended for u after turn
AppendedAfter(u, turn) ==
    Cardinality({i \in 1..Len(log[u]) :
                    \E j \in 1..(i - 1) : log[u][j] = turn})

Holds(list, turn) == \E i \in 1..Len(list) : list[i] = turn

LostTurns ==
    {turn \in obs.completed :
        /\ ~Holds(DictGet(dialog, ConcUser), turn)
        /\ AppendedAfter(ConcUser, turn) < 15}

C13_LostOnlyByStaleReassign ==
    obs.op = "threads" =>
        /\ dialog = View(heap, bound)
        /\ (LostTurns # {}) => obs.stale

C13_Witness ==
    /\ obs.op = "threads"
    /\ LostTurns # {}
    /\ \A t \in Threads : frames[t].pc = "idle"

(***************************************************************************)
(* C14: context assembly is read-only: a get_relevant_context call leaves  *)
(* the dialogue buffer (its keys included), both vector collections and    *)
(* the episodic store as they are, for known and unknown user ids alike.   *)
(***************************************************************************)
C14_ReadOnly ==
    [][(obs'.op = "context" /\ ncalls' = ncalls + 1) =>
          /\ dialog' = dialog
          /\ DOMAIN dialog' = DOMAIN dialog
          /\ cv_col' = cv_col
          /\ kb_col' = kb_col
          /\ ep_store' = ep_store]_vars

C14_Witness ==
    /\ obs.op = "context"
    /\ ~ret.raised
    /\ dialog # <<>>
    /\ obs.user \notin DOMAIN dialog

(***************************************************************************)
(* C15: dialogue state is user-scoped: add_conversation_memory for user A  *)
(* leaves the short-term history of every other user as it is, and the     *)
(* recent-messages section assembled for user A holds only turns appended  *)
(* for user A.                                                             *)
(***************************************************************************)
\* the line of the recent-messages section for a turn
CutAnswer(a) == IF Len(a) <= 200 THEN a ELSE SubSeq(a, 1, 200)

TurnLine(t) == "User: " \o t.q \o "\nAssistant: " \o CutAnswer(t.a)

\* line is the rendering of some turn of turns
RendersOneOf(line, turns) ==
    \E j \in 1..Len(turns) : line = TurnLine(turns[j])

C15_UserScoped ==
    /\ [][\A u \in Users :
             (obs'.op = "add" /\ ncalls' = ncalls + 1 /\ obs'.user # u) =>
                /\ DictGet(dialog', u) = DictGet(dialog, u)
                /\ (u \in DOMAIN dialog') <=> (u \in DOMAIN dialog)]_vars
    /\ [](obs.op = "context" =>
             \A i \in 1..Len(obs.tail) :
                /\ RendersOneOf(obs.tail[i], log[obs.user])
                /\ \A v \in Users \ {obs.user} :
                       ~RendersOneOf(obs.tail[i], log[v]))

C15_Witness ==
    /\ obs.op = "context"
    /\ obs.tail # <<>>
    /\ \A v \in Users : Len(DictGet(dialog, v)) >= 2

(***************************************************************************)
(* C16: the recent-messages section of the context assembled for a user    *)
(* consists of that user's last min(3, history length) turns in insertion  *)
(* order, each with its response text cut to its first 200 characters and  *)
(* its query text whole.                                                   *)
(***************************************************************************)
C16_RecentMessages ==
    obs.op = "context" =>
        LET h == DictGet(dialog, obs.user)
            n == Min(3, Len(h))
            p == obs.parts
        IN  /\ Len(obs.tail) = n
            /\ \A i \in 1..n : obs.tail[i] = TurnLine(h[Len(h) - n + i])
            /\ n > 0 =>
                   /\ Len(p) > n
                   /\ p[Len(p) - n] = HeaderTail
                   /\ SubSeq(p, Len(p) - n + 1, Len(p)) = obs.tail
            /\ n = 0 => HeaderAt(p, HeaderTail) = {}

C16_Witness ==
    /\ obs.op = "context"
    /\ Len(DictGet(dialog, obs.user)) > 3
    /\ Len(obs.tail) = 3
    /\ \E t \in {LastTurn(obs.user)} : Len(t.a) > 200 /\ Len(t.q) > 200

(***************************************************************************)
(* C17: with the default limits the assembled context renders at most 6 CV *)
(* items, at most 5 KB items (the first 5 of up to 8 retrieved, in         *)
(* retrieval order) and at most 5 episodic items, whatever the backends    *)
(* hold and for both kinds of episodic backend.                            *)
(***************************************************************************)
Headers == {HeaderCv, HeaderKb, HeaderEp, HeaderTail}

\* the lines of parts that follow header h up to the next header
ItemsOf(parts, h) ==
    IF HeaderAt(parts, h) = {} THEN <<>>
    ELSE LET i == CHOOSE x \in HeaderAt(parts, h) : TRUE
             nxt == {j \in (i + 1)..Len(parts) : parts[j] \in Headers}
             e == IF nxt = {} THEN Len(parts)
                  ELSE (CHOOSE j \in nxt : \A k \in nxt : j <= k) - 1
         IN  SubSeq(parts, i + 1, e)

C17_Caps ==
    obs.op = "context" =>
        LET p == obs.parts
            cvItems == ItemsOf(p, HeaderCv)
            kbItems == ItemsOf(p, HeaderKb)
            epItems == ItemsOf(p, HeaderEp)
        IN  /\ Len(cvItems) <= 6
            /\ Len(kbItems) <= 5
            /\ Len(epItems) <= 5
            /\ Len(obs.kb) <= 8
            /\ Len(cvItems) = Len(obs.cv)
            /\ Len(epItems) = Len(obs.ep)
            /\ Len(kbItems) = Min(5, Len(obs.kb))
            /\ \A i \in 1..Len(kbItems) :
                   kbItems[i] = Bullet \o FirstN(Strip(obs.kb[i].text), KbChars)

C17_Witness ==
    /\ obs.op = "context"
    /\ mem0_kind = "oss"
    /\ Len(ep_store[obs.user]) > 5
    /\ Count(kb_col) > 8
    /\ Len(obs.kb) = 8
    /\ Len(ItemsOf(obs.parts, HeaderCv)) = 6
    /\ Len(ItemsOf(obs.parts, HeaderKb)) = 5
    /\ Len(ItemsOf(obs.parts, HeaderEp)) = 5

(***************************************************************************)
(* C18: score filtering uses strict thresholds: a CV search result is kept *)
(* if and only if its score (1 - distance) is strictly greater than 0.2,   *)
(* a KB search result if and only if its score is strictly greater than    *)
(* 0.3; a result with its score exactly at the threshold is excluded, and  *)
(* the results kept stand in the backend's order.  Scores are in           *)
(* hundredths.                                                             *)
(***************************************************************************)
C18_StrictThresholds ==
    obs.op = "search" =>
        LET t == IF obs.which = "cv" THEN 20 ELSE 30
            score == [i \in 1..Len(obs.dists) |-> 100 - obs.dists[i]]
            pass == {i \in 1..Len(obs.dists) : score[i] > t}
            rank(i) == Cardinality({j \in pass : j <= i})
        IN  /\ ~ret.raised
            /\ Len(obs.value) = Cardinality(pass)
            /\ \A i \in pass :
                   obs.value[rank(i)] = [text |-> obs.docs[i], score |-> score[i]]
            /\ \A i \in 1..Len(obs.dists) :
                   score[i] = t =>
                      \A n \in 1..Len(obs.value) : obs.value[n].text # obs.docs[i]

C18_Witness ==
    /\ obs.op = "search"
    /\ obs.which = "cv"
    /\ obs.dists[1] = 80
    /\ obs.dists[2] = 79
    /\ obs.dists[3] = 70
    /\ Len(obs.value) = 2
    /\ obs.value[1].text = obs.docs[2]

(***************************************************************************)
(* C19, as claimed: for every input text and every two consecutive chunks  *)
(* of one chunking call with chunk size 800 and overlap 200, the last 200  *)
(* characters of chunk i equal the first 200 characters of chunk i+1.      *)
(***************************************************************************)
\* the last n characters of s, all of s when it is shorter
LastChars(s, n) ==
    IF Len(s) <= n THEN s ELSE SubSeq(s, Len(s) - n + 1, Len(s))

\* the first n characters of s, all of s when it is shorter
FirstChars(s, n) ==
    IF Len(s) <= n THEN s ELSE SubSeq(s, 1, n)

C19_Overlap200 ==
    obs.op = "chunk" =>
        \A i \in 1..(Len(obs.docs) - 1) :
            LastChars(obs.docs[i], 200) = FirstChars(obs.docs[i + 1], 200)

(***************************************************************************)
(* C19, amended: for every input text and every two consecutive chunks     *)
(* produced from it by one chunking call with chunk size 800 and overlap   *)
(* 200, the last m characters of chunk i equal the first m characters of   *)
(* chunk i+1, where m is the smaller of 200 and the length of chunk i+1    *)
(* (a final chunk may be shorter than 200 characters).                     *)
(***************************************************************************)
C19_OverlapUpToNextChunk ==
    obs.op = "chunk" =>
        \A i \in 1..(Len(obs.docs) - 1) :
            LET m == Min(200, Len(obs.docs[i + 1]))
            IN  LastChars(obs.docs[i], m) = FirstChars(obs.docs[i + 1], m)

C19_Witness ==
    /\ obs.op = "chunk"
    /\ obs.raw # obs.text
    /\ Len(obs.docs) = 3
    /\ Len(obs.docs[2]) < 800
    /\ Len(obs.docs[3]) < 200

(***************************************************************************)
(* C20: chunking drops short windows: a window of the whitespace-          *)
(* normalised text is emitted if and only if it is longer than 50          *)
(* characters, so no fragment shorter than 50 characters is ever emitted   *)
(* and an input of length L <= 50 yields an empty output.                  *)
(***************************************************************************)
C20_ShortWindowsDropped ==
    obs.op = "chunk" =>
        LET L == Len(obs.text)
            starts == {k \in 0..L : k * 600 < L}
            Window(k) == SubSeq(obs.text, k * 600 + 1, Min(k * 600 + 800, L))
            kept == {k \in starts : Len(Window(k)) > 50}
            rank(k) == Cardinality({j \in kept : j <= k})
        IN  /\ Len(obs.docs) = Cardinality(kept)
            /\ \A k \in kept : obs.docs[rank(k)] = Window(k)
            /\ \A i \in 1..Len(obs.docs) : Len(obs.docs[i]) > 50
            /\ Len(obs.raw) <= 50 => obs.docs = <<>>
            /\ L <= 50 => obs.docs = <<>>

C20_Witness ==
    /\ obs.op = "chunk"
    /\ Len(obs.text) = 1250
    /\ Len(obs.docs) = 2
    /\ Len(obs.raw) > Len(obs.text)

(***************************************************************************)
(* C21: within one chunking call the ids of the emitted fragments are      *)
(* prefix_1, prefix_2, ..., prefix_n in emission order: numbered from 1    *)
(* without gaps or repeats, also when some windows are discarded and when  *)
(* the call is given several input texts.                                  *)
(***************************************************************************)
C21_IdsNumbered ==
    obs.op = "ids" =>
        /\ Len(obs.ids) = Len(obs.docs)
        /\ \A i \in 1..Len(obs.ids) :
              obs.ids[i] = obs.prefix \o "_" \o ToString(i)
        /\ \A i, j \in 1..Len(obs.ids) : obs.ids[i] = obs.ids[j] => i = j

C21_Witness ==
    /\ obs.op = "ids"
    /\ Len(obs.texts) = 2
    /\ Len(Normalize(obs.texts[1])) = 1250
    /\ obs.texts[2] # obs.texts[1]
    /\ Len(obs.ids) = 4

(***************************************************************************)
(* C26: the post-indexing self-check is advisory: a smoke-test query that  *)
(* fails or returns no result after CV indexing does not block startup;    *)
(* construction of the memory manager still proceeds to document           *)
(* ingestion.  (The fragments were added, so the self-check was run.)      *)
(***************************************************************************)
C26_SelfCheckAdvisory ==
    (obs.op = "index_cv" /\ Count(cv_col) > obs.before) =>
        /\ ~ret.raised
        /\ pc = "ingest_docs"

(***************************************************************************)
(* C25: vector queries are clamped: a KB or CV search never asks the       *)
(* collection for more results than it currently holds (n_results =        *)
(* min(k, count)), and when the collection is empty it returns the empty   *)
(* list without issuing a query and without failing.                       *)
(***************************************************************************)
C25_Clamped ==
    obs.op = "context" =>
        /\ \A i \in 1..Len(obs.asked.kb) :
              /\ obs.asked.kb[i] <= Count(kb_col)
              /\ obs.asked.kb[i] = Min(KKb, Count(kb_col))
        /\ \A i \in 1..Len(obs.asked.cv) :
              /\ obs.asked.cv[i] <= Count(cv_col)
              /\ obs.asked.cv[i] = Min(KCv, Count(cv_col))
        /\ Count(kb_col) = 0 =>
              obs.asked.kb = <<>> /\ obs.kb = <<>> /\ ~ret.raised
        /\ Count(cv_col) = 0 =>
              obs.asked.cv = <<>> /\ obs.cv = <<>> /\ ~ret.raised
        /\ Count(kb_col) > 0 => Len(obs.asked.kb) = 1
        /\ Count(cv_col) > 0 => Len(obs.asked.cv) = 1

C25_Witness ==
    /\ obs.op = "context"
    /\ Count(kb_col) > 0
    /\ Count(kb_col) < KKb
    /\ obs.asked.kb = <<Count(kb_col)>>
    /\ Count(cv_col) > KCv
    /\ obs.asked.cv = <<KCv>>
    /\ obs.kb # <<>>

(***************************************************************************)
(* C22: preference store round trip: get(u) for a user with no stored      *)
(* record returns the default record; after set(u, field=v) with v not     *)
(* None, get(u) returns v for that field and the previously stored (or     *)
(* default) value for every field not passed, until the next set for u.    *)
(***************************************************************************)
\* the value the file holds for field f of user u, the default when none
StoredOrDefault(file, u, f) ==
    IF /\ ToString(u) \in DOMAIN file.db
       /\ f \in DOMAIN file.db[ToString(u)]
    THEN file.db[ToString(u)][f]
    ELSE PrefsDefault[f]

C22_GetReturnsStored ==
    obs.op = "get" =>
        /\ DOMAIN obs.value = Fields
        /\ \A f \in Fields :
              obs.value[f] = StoredOrDefault(obs.before, obs.user, f)
        /\ ToString(obs.user) \notin DOMAIN obs.before.db =>
              obs.value = PrefsDefault

C22_SetStores ==
    obs.op = "set" =>
        \A f \in Fields :
            /\ (f \in DOMAIN obs.kwargs /\ obs.kwargs[f] # None) =>
                  StoredOrDefault(prefs_file, obs.user, f) = obs.kwargs[f]
            /\ f \notin DOMAIN obs.kwargs =>
                  StoredOrDefault(prefs_file, obs.user, f)
                      = StoredOrDefault(obs.before, obs.user, f)

\* between two sets for u nothing changes what the file holds for u
C22_KeptUntilNextSet ==
    \A u \in UserIds :
        (obs'.op = "get" \/ obs'.user # u) =>
            \A f \in Fields :
                StoredOrDefault(prefs_file', u, f)
                    = StoredOrDefault(prefs_file, u, f)

C22_RoundTrip ==
    /\ [](C22_GetReturnsStored /\ C22_SetStores)
    /\ [][C22_KeptUntilNextSet]_vars

C22_Witness ==
    /\ obs.op = "set"
    /\ obs.user = 1
    /\ DOMAIN obs.kwargs = {"lang", "voice"}
    /\ obs.kwargs["lang"] = None
    /\ obs.kwargs["voice"] = "en-US-Wavenet-F"
    /\ StoredOrDefault(obs.before, 1, "style") = "calm"
    /\ StoredOrDefault(obs.before, 1, "lang") = "uz-UZ"
    /\ ToString(2) \in DOMAIN prefs_file.db

(***************************************************************************)
(* C23: the stored style preference of every user is always one of         *)
(* neutral, calm, cheerful, after any sequence of preference-selection     *)
(* callbacks delivered through the polling bot or through the webhook      *)
(* endpoint.                                                               *)
(***************************************************************************)
C23_StyleEnum ==
    \A k \in DOMAIN prefs_file.db :
        prefs_file.db[k]["style"] \in {"neutral", "calm", "cheerful"}

(***************************************************************************)
(* C27: selecting a language for which no native voices exist (uz-UZ)      *)
(* clears the user's stored voice: after the set_lang callback for such a  *)
(* language, the user's stored voice is no longer the previously chosen    *)
(* voice.                                                                  *)
(***************************************************************************)
C27_VoiceCleared ==
    (/\ obs.op = "callback"
     /\ obs.channel = "polling"
     /\ obs.data = "set_lang:uz-UZ"
     /\ ToString(obs.user) \in DOMAIN obs.before.db) =>
        prefs_file.db[ToString(obs.user)]["voice"]
            # obs.before.db[ToString(obs.user)]["voice"]

(***************************************************************************)
(* C28: for a user whose stored language is uz-UZ, a voice message is      *)
(* transcribed with recognition language ru-RU (the Uzbek fallback): the   *)
(* language code that reaches the speech-recognition request is ru-RU,     *)
(* not uz-UZ.                                                              *)
(***************************************************************************)
C28_UzbekFallback ==
    (/\ obs.op = "voice"
     /\ StoredOrDefault(obs.before, obs.user, "lang") = "uz-UZ") =>
        obs.request_lang = "ru-RU"

(***************************************************************************)
(* C29: when a webhook secret is configured, every POST update whose       *)
(* secret header is missing or different is rejected with 401 before any   *)
(* processing: it causes no preference write, no generation call and no    *)
(* outbound message; when no secret is configured every update is          *)
(* processed.                                                              *)
(***************************************************************************)
Configured == secret \notin {None, ""}

C29_SecretGate ==
    obs.op = "callback" =>
        /\ (Configured /\ obs.request.header # secret) =>
              /\ obs.status = 401
              /\ obs.writes = 0 /\ obs.gen = 0 /\ obs.sent = 0
              /\ prefs_file = obs.before
        /\ (Configured /\ obs.request.header = secret) => obs.status = 200
        /\ ~Configured =>
              /\ obs.status = 200
              /\ obs.request.update.kind = "text" =>
                    obs.gen = 1 /\ obs.sent = 2
              /\ obs.request.update.kind = "voice" => obs.sent = 1
              /\ (/\ obs.request.update.kind = "callback"
                  /\ obs.request.update.chat # 0) =>
                    /\ obs.sent = 1
                    /\ obs.request.update.data # "menu" =>
                          /\ obs.writes = 1
                          /\ ToString(obs.user) \in DOMAIN prefs_file.db

C29_Witness ==
    /\ obs.op = "callback"
    /\ Configured
    /\ obs.request.header = None
    /\ obs.request.path \notin {PathRoot, PathFull}
    /\ obs.request.update.data = "set_style:loud"
    /\ obs.status = 401
    /\ ToString(1) \in DOMAIN prefs_file.db
    /\ prefs_file.db[ToString(1)]["style"] = "calm"

(***************************************************************************)
(* C24: the single global lock makes preference writes safe within one     *)
(* process: when set calls run concurrently in different threads (for the  *)
(* same or for different user ids), every call's read-modify-write of the  *)
(* store is atomic with respect to the others, so after all calls complete *)
(* no call's update has been lost: the store holds what the calls give     *)
(* one after the other, in the order they took the lock.                   *)
(***************************************************************************)
\* the dictionary after the first n calls, one after the other
RECURSIVE Serial(_, _)
Serial(calls, n) ==
    IF n = 0 THEN <<>>
    ELSE PrefsUpdate(Serial(calls, n - 1), calls[n].user, calls[n].kwargs).db

C24_NoLostUpdate ==
    obs.op = "locked" =>
        /\ Cardinality({t \in Threads : pth[t].pc # "idle"}) <= 1
        /\ (\A t \in Threads : pth[t].pc = "idle") =>
              prefs_file.db = Serial(obs.calls, Len(obs.calls))

C24_Witness ==
    /\ obs.op = "locked"
    /\ \A t \in Threads : pth[t].pc = "idle"
    /\ Len(obs.calls) = 3
    /\ obs.calls[1].thread # obs.calls[2].thread
    /\ obs.calls[1].user # obs.calls[2].user
    /\ obs.calls[3].user = 1
    /\ DOMAIN prefs_file.db = {ToString(1), ToString(2)}
    /\ prefs_file.db[ToString(1)]["lang"] = "uz-UZ"
    /\ prefs_file.db[ToString(1)]["voice"] = "ru-RU-Wavenet-C"
    /\ prefs_file.db[ToString(2)]["style"] = "calm"

(***************************************************************************)
(* C30: the chunking loop terminates for every input text and every pair   *)
(* of parameters (chunk size, overlap), including overlap greater than or  *)
(* equal to chunk size, because the window start advances by at least 100  *)
(* characters on every iteration.                                          *)
(***************************************************************************)
C30_AdvancesByMinStep ==
    (obs.op = "loop" /\ obs'.op = "loop") => obs'.start >= obs.start + 100

C30_Terminates ==
    /\ (obs.op = "loop") ~> (obs.op = "done")
    /\ [][C30_AdvancesByMinStep]_vars

C30_Witness ==
    /\ obs.op = "done"
    /\ obs.overlap >= obs.chunk_chars
    /\ obs.chunk_chars > 0
    /\ Len(obs.text) > 200
    /\ obs.start >= 300
    /\ obs.chunk # ""

====
